---- MODULE Spec2Model ----
(***************************************************************************)
(* Model of the glitch-deps / fracture dependency manager                  *)
(* (src/unnamed/part_002, the current revision of main.go).                *)
(*                                                                         *)
(* Strings are sequences of tokens (a token is a short run of characters   *)
(* that the model never looks inside).  "/" and "." and ".." are tokens of *)
(* their own, so strings.Contains, strings.HasPrefix, strings.HasSuffix,   *)
(* filepath.Clean and filepath.Join are computed on the text exactly as    *)
(* the Go library computes them on bytes, at token granularity.            *)
(***************************************************************************)
EXTENDS Integers, Sequences, FiniteSets, TLC

(***************************************************************************)
(* Bounds of the model.                                                    *)
(***************************************************************************)
MaxAssets == 3
MaxEntries == 2
MaxRuns == 2

(***************************************************************************)
(* strings                                                                 *)
(***************************************************************************)
HasPrefix(s, p) ==
  /\ Len(p) <= Len(s)
  /\ SubSeq(s, 1, Len(p)) = p

HasSuffix(s, p) ==
  /\ Len(p) <= Len(s)
  /\ SubSeq(s, Len(s) - Len(p) + 1, Len(s)) = p

Contains(s, p) ==
  \E i \in 0..(Len(s) - Len(p)) : SubSeq(s, i + 1, i + Len(p)) = p

TrimSuffix(s, p) ==
  IF HasSuffix(s, p) THEN SubSeq(s, 1, Len(s) - Len(p)) ELSE s

(***************************************************************************)
(* path/filepath (Unix)                                                    *)
(***************************************************************************)
Sep == "/"

RECURSIVE SplitAcc(_, _, _)
SplitAcc(s, cur, acc) ==
  IF s = <<>> THEN Append(acc, cur)
  ELSE IF Head(s) = Sep THEN SplitAcc(Tail(s), <<>>, Append(acc, cur))
  ELSE SplitAcc(Tail(s), Append(cur, Head(s)), acc)

\* strings.Split(s, "/"): the path elements of s, empty ones included
SplitPath(s) == SplitAcc(s, <<>>, <<>>)

RECURSIVE CleanAcc(_, _, _)
CleanAcc(segs, rooted, out) ==
  IF segs = <<>> THEN out
  ELSE LET seg == Head(segs)
           rest == Tail(segs)
       IN IF seg = <<>> \/ seg = <<".">> THEN CleanAcc(rest, rooted, out)
          ELSE IF seg = <<"..">>
            THEN IF Len(out) > 0 /\ out[Len(out)] # <<"..">>
                   THEN CleanAcc(rest, rooted, SubSeq(out, 1, Len(out) - 1))
                 ELSE IF rooted THEN CleanAcc(rest, rooted, out)
                 ELSE CleanAcc(rest, rooted, Append(out, seg))
          ELSE CleanAcc(rest, rooted, Append(out, seg))

RECURSIVE JoinSegs(_)
JoinSegs(segs) ==
  IF segs = <<>> THEN <<>>
  ELSE IF Len(segs) = 1 THEN Head(segs)
  ELSE Head(segs) \o <<Sep>> \o JoinSegs(Tail(segs))

\* filepath.Clean
Clean(path) ==
  IF path = <<>> THEN <<".">>
  ELSE LET rooted == Head(path) = Sep
           body == JoinSegs(CleanAcc(SplitPath(path), rooted, <<>>))
       IN IF rooted THEN <<Sep>> \o body
          ELSE IF body = <<>> THEN <<".">>
          ELSE body

RECURSIVE JoinRaw(_)
JoinRaw(elems) ==
  IF elems = <<>> THEN <<>>
  ELSE IF Head(elems) = <<>> THEN JoinRaw(Tail(elems))
  ELSE LET rest == JoinRaw(Tail(elems))
       IN IF rest = <<>> THEN Head(elems) ELSE Head(elems) \o <<Sep>> \o rest

\* filepath.Join(elems...): empty elements are ignored, the rest are joined
\* with "/" and the result is cleaned
Join(elems) ==
  LET raw == JoinRaw(elems)
  IN IF raw = <<>> THEN <<>> ELSE Clean(raw)

RECURSIVE LastSep(_)
LastSep(s) ==
  IF s = <<>> THEN 0
  ELSE IF s[Len(s)] = Sep THEN Len(s)
  ELSE LastSep(SubSeq(s, 1, Len(s) - 1))

\* filepath.Dir
Dir(path) == Clean(SubSeq(path, 1, LastSep(path)))

\* filepath.Base of a cleaned path
Base(path) == SubSeq(path, LastSep(path) + 1, Len(path))

\* filepath.Rel(base, targ) for cleaned paths with targ at or beneath base
Rel(base, targ) ==
  IF targ = base THEN <<".">>
  ELSE SubSeq(targ, Len(base) + 2, Len(targ))

(***************************************************************************)
(* The file system: regular files (path -> body) and directories.  Paths   *)
(* are cleaned absolute paths.  A body is what a file holds: the bytes of  *)
(* an extracted file (data), or a downloaded release archive (its          *)
(* container format and its entries).                                      *)
(***************************************************************************)
RawBody(data) == [format |-> "raw", entries |-> <<>>, data |-> data]

ArchiveBody(format, entries) == [format |-> format, entries |-> entries, data |-> <<>>]

NoFiles == [q \in {} |-> RawBody(<<>>)]

EmptyFS == [files |-> NoFiles, dirs |-> {<<Sep>>}]

\* the path itself and every directory above it, the root excluded
SelfAndParents(p) ==
  {p} \cup {SubSeq(p, 1, i - 1) : i \in {j \in 2..Len(p) : p[j] = Sep}}

\* p lies strictly beneath directory d
Beneath(p, d) == HasPrefix(p, d \o <<Sep>>)

IsFile(fs, p) == p \in DOMAIN fs.files

IsDir(fs, p) == p \in fs.dirs

Exists(fs, p) == IsFile(fs, p) \/ IsDir(fs, p)

PutFile(files, p, body) ==
  [q \in (DOMAIN files) \cup {p} |-> IF q = p THEN body ELSE files[q]]

DropFiles(files, gone) ==
  [q \in (DOMAIN files) \ gone |-> files[q]]

\* os.MkdirAll: fails when the path or one of its parents is a regular file
MkdirAll(fs, p) ==
  IF \E q \in SelfAndParents(p) : IsFile(fs, q)
    THEN [ok |-> FALSE, fs |-> fs]
    ELSE [ok |-> TRUE, fs |-> [fs EXCEPT !.dirs = @ \cup SelfAndParents(p)]]

\* bytes of a file opened without O_TRUNC and written from offset 0
Overwrite(old, data) == data \o SubSeq(old, Len(data) + 1, Len(old))

\* os.OpenFile(p, O_CREATE|O_WRONLY, mode) followed by io.Copy
WriteNoTrunc(fs, p, data) ==
  IF IsDir(fs, p) \/ ~IsDir(fs, Dir(p))
    THEN [ok |-> FALSE, fs |-> fs]
    ELSE LET old == IF IsFile(fs, p) THEN fs.files[p].data ELSE <<>>
         IN [ok |-> TRUE,
             fs |-> [fs EXCEPT !.files = PutFile(@, p, RawBody(Overwrite(old, data)))]]

\* os.Create(p) followed by io.Copy
CreateFile(fs, p, body) ==
  IF IsDir(fs, p) \/ ~IsDir(fs, Dir(p))
    THEN [ok |-> FALSE, fs |-> fs]
    ELSE [ok |-> TRUE, fs |-> [fs EXCEPT !.files = PutFile(@, p, body)]]

\* os.Rename of a regular file
RenameFile(fs, src, dst) ==
  IF ~IsFile(fs, src) \/ IsDir(fs, dst) \/ ~IsDir(fs, Dir(dst))
    THEN [ok |-> FALSE, fs |-> fs]
    ELSE [ok |-> TRUE,
          fs |-> [fs EXCEPT !.files = PutFile(DropFiles(@, {src}), dst, fs.files[src])]]

\* os.RemoveAll
RemoveAll(fs, p) ==
  [files |-> DropFiles(fs.files, {q \in DOMAIN fs.files : q = p \/ Beneath(q, p)}),
   dirs |-> {q \in fs.dirs : ~(q = p \/ Beneath(q, p))}]

\* os.Remove of a regular file
Remove(fs, p) ==
  IF IsFile(fs, p)
    THEN [ok |-> TRUE, fs |-> [fs EXCEPT !.files = DropFiles(@, {p})]]
    ELSE [ok |-> FALSE, fs |-> fs]

\* the paths whose state differs between two file systems
Changed(a, b) ==
  {p \in (DOMAIN a.files) \cup (DOMAIN b.files) :
     \/ IsFile(a, p) # IsFile(b, p)
     \/ (IsFile(a, p) /\ IsFile(b, p) /\ a.files[p] # b.files[p])}
  \cup ((a.dirs \ b.dirs) \cup (b.dirs \ a.dirs))

(***************************************************************************)
(* Errors.  The code returns formatted messages; the model keeps the kind  *)
(* of the message and the values the message prints.                       *)
(***************************************************************************)
Nil == [kind |-> "nil", names |-> <<>>, count |-> 0]

Err(kind) == [kind |-> kind, names |-> <<>>, count |-> 0]

ErrNames(kind, names) == [kind |-> kind, names |-> names, count |-> Len(names)]

ErrCount(kind, n) == [kind |-> kind, names |-> <<>>, count |-> n]

(***************************************************************************)
(* Archive extraction                                                      *)
(***************************************************************************)
\* an extraction that does not check where an entry goes
UncheckedPath(targetPath, targetDir) == TRUE

\* the check of lines 344-347 and 386-389
PathInsideTarget(targetPath, targetDir) ==
  HasPrefix(targetPath, Clean(targetDir) \o <<Sep>>)

Step(err, fs) == [err |-> err, fs |-> fs]

\* a step that fails with the given error unless the file operation went well
Checked(op, failure) == Step(IF op.ok THEN Nil ELSE Err(failure), op.fs)

\* lines 356-370, after the parent directory was created
TarWriteFile(m, targetPath, data) ==
  IF ~m.ok THEN Step(Err("failed to create parent directory"), m.fs)
  ELSE Checked(WriteNoTrunc(m.fs, targetPath, data), "failed to create file")

\* lines 344-371 for the target path of the entry
TarEntryAt(fs, e, targetDir, targetPath) ==
  IF ~PathInsideTarget(targetPath, targetDir) THEN Step(Err("invalid file path"), fs)
  ELSE IF e.Typeflag = "dir" THEN Checked(MkdirAll(fs, targetPath), "failed to create directory")
  ELSE IF e.Typeflag = "reg" THEN TarWriteFile(MkdirAll(fs, Dir(targetPath)), targetPath, e.Data)
  ELSE Step(Nil, fs)

\* one iteration of the loop of extractTarReader
TarEntry(fs, e, targetDir) == TarEntryAt(fs, e, targetDir, Join(<<targetDir, e.Name>>))

RECURSIVE extractTarReader(_, _, _)
RECURSIVE TarRest(_, _, _)
\* a loop that skips an entry that failed and goes on with the next
TarSkipFailed(r, entries, targetDir) == extractTarReader(r.fs, entries, targetDir)

\* the loop goes on unless the entry failed
TarRest(r, entries, targetDir) ==
  IF r.err # Nil THEN r ELSE extractTarReader(r.fs, entries, targetDir)

extractTarReader(fs, entries, targetDir) ==
  IF entries = <<>> THEN Step(Nil, fs)
  ELSE TarRest(TarEntry(fs, Head(entries), targetDir), Tail(entries), targetDir)

\* lines 399-424, after the parent directory was created
ZipWriteFile(m, targetPath, data) ==
  IF ~m.ok THEN Step(Err("failed to create parent directory"), m.fs)
  ELSE Checked(CreateFile(m.fs, targetPath, RawBody(data)), "failed to create file")

\* lines 386-424 for the target path of the entry
ZipEntryAt(fs, e, targetDir, targetPath) ==
  IF ~PathInsideTarget(targetPath, targetDir) THEN Step(Err("invalid file path"), fs)
  ELSE IF e.Typeflag = "dir" THEN Checked(MkdirAll(fs, targetPath), "failed to create directory")
  ELSE ZipWriteFile(MkdirAll(fs, Dir(targetPath)), targetPath, e.Data)

\* one iteration of the loop of extractZip
ZipEntry(fs, e, targetDir) == ZipEntryAt(fs, e, targetDir, Join(<<targetDir, e.Name>>))

RECURSIVE extractZipEntries(_, _, _)
RECURSIVE ZipRest(_, _, _)
ZipRest(r, entries, targetDir) ==
  IF r.err # Nil THEN r ELSE extractZipEntries(r.fs, entries, targetDir)

extractZipEntries(fs, entries, targetDir) ==
  IF entries = <<>> THEN Step(Nil, fs)
  ELSE ZipRest(ZipEntry(fs, Head(entries), targetDir), Tail(entries), targetDir)

\* extractTarGz / extractTarXz: open the file, open the decompressor
extractTar(fs, archivePath, targetDir, format) ==
  IF ~IsFile(fs, archivePath) THEN Step(Err("failed to open archive"), fs)
  ELSE IF fs.files[archivePath].format # format THEN Step(Err("failed to create reader"), fs)
  ELSE extractTarReader(fs, fs.files[archivePath].entries, targetDir)

extractZip(fs, archivePath, targetDir) ==
  IF ~IsFile(fs, archivePath) \/ fs.files[archivePath].format # "zip"
    THEN Step(Err("failed to open ZIP archive"), fs)
  ELSE extractZipEntries(fs, fs.files[archivePath].entries, targetDir)

\* lines 291-299, after the target directory was created
DispatchArchive(m, archivePath, targetDir) ==
  IF ~m.ok THEN Step(Err("failed to create target directory"), m.fs)
  ELSE IF HasSuffix(archivePath, <<".", "tar", ".", "gz">>)
    THEN extractTar(m.fs, archivePath, targetDir, "tar.gz")
  ELSE IF HasSuffix(archivePath, <<".", "tar", ".", "xz">>)
    THEN extractTar(m.fs, archivePath, targetDir, "tar.xz")
  ELSE IF HasSuffix(archivePath, <<".", "zip">>)
    THEN extractZip(m.fs, archivePath, targetDir)
  ELSE Step(Err("unsupported archive format"), m.fs)

extractArchive(fs, archivePath, targetDir) ==
  DispatchArchive(MkdirAll(fs, targetDir), archivePath, targetDir)

(***************************************************************************)
(* Path expansion                                                          *)
(***************************************************************************)
RECURSIVE ReplaceAll(_, _, _)
\* strings.ReplaceAll for a non-empty old
ReplaceAll(s, old, new) ==
  IF Len(s) < Len(old) THEN s
  ELSE IF SubSeq(s, 1, Len(old)) = old
    THEN new \o ReplaceAll(SubSeq(s, Len(old) + 1, Len(s)), old, new)
  ELSE <<Head(s)>> \o ReplaceAll(Tail(s), old, new)

\* tokens matched by [A-Z_] and by [A-Z0-9_]
IdStartTok == {"APP", "ENV", "_", "HOME", "VERSION", "TIMESTAMP", "ASSET_EXTENSION"}

IdContTok == IdStartTok \cup {"1"}

RECURSIVE IdentRun(_)
\* the longest prefix of s made of [A-Z0-9_]
IdentRun(s) ==
  IF s = <<>> \/ Head(s) \notin IdContTok THEN <<>>
  ELSE <<Head(s)>> \o IdentRun(Tail(s))

RECURSIVE FindEnvVars(_)
\* envVarPattern.FindAllStringSubmatch(s, -1): the names, left to right
FindEnvVars(s) ==
  IF Len(s) < 2 THEN <<>>
  ELSE IF Head(s) = "$" /\ s[2] \in IdStartTok
    THEN LET name == IdentRun(Tail(s))
         IN <<name>> \o FindEnvVars(SubSeq(s, Len(name) + 2, Len(s)))
  ELSE FindEnvVars(Tail(s))

\* os.Getenv
Getenv(env, name) == IF name \in DOMAIN env THEN env[name] ELSE <<>>

RECURSIVE ReplaceEnvVars(_, _, _)
\* the loop of lines 1324-1331
ReplaceEnvVars(expanded, matches, env) ==
  IF matches = <<>> THEN expanded
  ELSE ReplaceEnvVars(ReplaceAll(expanded, <<"$">> \o Head(matches), Getenv(env, Head(matches))),
                      Tail(matches), env)

AtVersion == <<"@", "VERSION">>

AtTimestamp == <<"@", "TIMESTAMP">>

AtAssetExtension == <<"@", "ASSET_EXTENSION">>

\* an expansion that does not know @ASSET_EXTENSION
ExpandWithoutExtension(path, version, assetExtension, extractMode, now, env) ==
  LET e1 == IF Contains(path, AtVersion) THEN ReplaceAll(path, AtVersion, version) ELSE path
      e2 == IF Contains(e1, AtTimestamp) THEN ReplaceAll(e1, AtTimestamp, <<ToString(now)>>) ELSE e1
  IN ReplaceEnvVars(e2, FindEnvVars(e2), env)

expandPathWithOptions(path, version, assetExtension, extractMode, now, env) ==
  LET e1 == IF Contains(path, AtVersion) THEN ReplaceAll(path, AtVersion, version) ELSE path
      e2 == IF Contains(e1, AtTimestamp) THEN ReplaceAll(e1, AtTimestamp, <<ToString(now)>>) ELSE e1
      e3 == IF Contains(e2, AtAssetExtension)
              THEN IF extractMode THEN ReplaceAll(e2, AtAssetExtension, <<>>)
                   ELSE IF assetExtension # <<>> THEN ReplaceAll(e2, AtAssetExtension, assetExtension)
                   ELSE ReplaceAll(e2, AtAssetExtension, <<>>)
              ELSE e2
  IN ReplaceEnvVars(e3, FindEnvVars(e3), env)

expandPath(path, version, now, env) ==
  expandPathWithOptions(path, version, <<>>, FALSE, now, env)

(***************************************************************************)
(* Asset selection of the binary flow (lines 675-767)                      *)
(***************************************************************************)
NoAsset == [ID |-> 0, Name |-> <<>>, BrowserDownloadURL |-> <<>>]

RECURSIVE AssetNames(_)
AssetNames(assets) ==
  IF assets = <<>> THEN <<>>
  ELSE <<Head(assets).Name>> \o AssetNames(Tail(assets))

\* stage 1: asset_name
FilterByName(assets, assetName) ==
  LET keep(a) == Contains(a.Name, assetName)
  IN SelectSeq(assets, keep)

\* lines 708-711
NormalizeExtension(ext) ==
  IF HasPrefix(ext, <<".">>) THEN ext ELSE <<".">> \o ext

\* a filter that looks for the extension anywhere in the name
ExtensionAnywhere(assets, ext) ==
  LET keep(a) == Contains(a.Name, NormalizeExtension(ext))
  IN SelectSeq(assets, keep)

\* stage 2: asset_extension
FilterByExtension(assets, ext) ==
  LET keep(a) == HasSuffix(a.Name, NormalizeExtension(ext))
  IN SelectSeq(assets, keep)

\* stage 3: asset_suffix
FilterBySuffix(assets, suffix) ==
  LET keep(a) == Contains(a.Name, suffix)
  IN SelectSeq(assets, keep)

getAssetSuffixFromDep(dep) == dep.AssetSuffix

\* a selector that falls back to the first available asset
FirstAvailable(candidateAssets) ==
  IF candidateAssets = <<>>
    THEN [err |-> Err("no assets found in release"), asset |-> NoAsset]
    ELSE [err |-> Nil, asset |-> candidateAssets[1]]

\* the outcome for an empty asset_suffix (lines 758-767)
NoSuffixOutcome(candidateAssets) ==
  [err |-> ErrNames("asset_suffix is required", AssetNames(candidateAssets)), asset |-> NoAsset]

\* a selector that picks the first of several matches
FirstMatch(matchingAssets) == [err |-> Nil, asset |-> matchingAssets[1]]

\* the outcome for several assets matching asset_suffix (lines 745-751)
ManyMatchesOutcome(matchingAssets) ==
  [err |-> ErrNames("multiple assets found", AssetNames(matchingAssets)), asset |-> NoAsset]

SelectBySuffix(candidateAssets, assetSuffix) ==
  IF assetSuffix # <<>>
    THEN LET matchingAssets == FilterBySuffix(candidateAssets, assetSuffix)
         IN IF Len(matchingAssets) = 0
              THEN [err |-> Err("no assets found matching asset_suffix"), asset |-> NoAsset]
            ELSE IF Len(matchingAssets) > 1
              THEN ManyMatchesOutcome(matchingAssets)
            ELSE [err |-> Nil, asset |-> matchingAssets[1]]
    ELSE NoSuffixOutcome(candidateAssets)

\* lines 700-767: the extension stage, then the suffix stage
SelectByExtension(candidateAssets, dep) ==
  IF dep.AssetExtension # <<>>
    THEN IF Len(FilterByExtension(candidateAssets, dep.AssetExtension)) = 0
           THEN [err |-> Err("no assets found with asset_extension"), asset |-> NoAsset]
           ELSE SelectBySuffix(FilterByExtension(candidateAssets, dep.AssetExtension),
                               getAssetSuffixFromDep(dep))
    ELSE SelectBySuffix(candidateAssets, getAssetSuffixFromDep(dep))

\* a selection that asks for the suffix before it filters
SelectAssetSuffixFirst(dep, assets) ==
  IF getAssetSuffixFromDep(dep) = <<>> THEN NoSuffixOutcome(assets)
  ELSE IF dep.AssetName # <<>>
    THEN IF Len(FilterByName(assets, dep.AssetName)) = 0
           THEN [err |-> Err("no assets found containing asset_name"), asset |-> NoAsset]
           ELSE SelectByExtension(FilterByName(assets, dep.AssetName), dep)
    ELSE SelectByExtension(assets, dep)

\* lines 685-767: the name stage, then the other two
SelectAsset(dep, assets) ==
  IF dep.AssetName # <<>>
    THEN IF Len(FilterByName(assets, dep.AssetName)) = 0
           THEN [err |-> Err("no assets found containing asset_name"), asset |-> NoAsset]
           ELSE SelectByExtension(FilterByName(assets, dep.AssetName), dep)
    ELSE SelectByExtension(assets, dep)

(***************************************************************************)
(* Collaborators: GitHub API, downloads, git.  What the network answers is *)
(* an input of the operation (r): the status of the release request        *)
(* (relNet), the release it returns, the status of the download (dlNet),   *)
(* the body it serves, the outcome of git ls-remote and of git clone/pull. *)
(***************************************************************************)
WorkDir == <<Sep, "w">>

TmpDir == Join(<<WorkDir, <<"tmp">>>>)

NoLock ==
  [Name |-> <<>>, Path |-> <<>>, Source |-> <<>>, Version |-> <<>>, Hash |-> <<>>,
   Type |-> "", Private |-> FALSE, Extract |-> FALSE]

RECURSIVE IndexOf(_, _, _)
\* position of the first occurrence of p in s at or after i, 0 if none
IndexOf(s, p, i) ==
  IF i + Len(p) - 1 > Len(s) THEN 0
  ELSE IF SubSeq(s, i, i + Len(p) - 1) = p THEN i
  ELSE IndexOf(s, p, i + 1)

RECURSIVE UpToSep(_)
\* the longest prefix of s without "/"
UpToSep(s) ==
  IF s = <<>> \/ Head(s) = Sep THEN <<>>
  ELSE <<Head(s)>> \o UpToSep(Tail(s))

\* regexp github\.com/([^/]+)/([^/]+)(?:\.git)? and the TrimSuffix of line 136
extractRepoInfo(source) ==
  LET at == IndexOf(source, <<"github.com", Sep>>, 1)
      afterHost == SubSeq(source, at + 2, Len(source))
      owner == UpToSep(afterHost)
      afterOwner == SubSeq(afterHost, Len(owner) + 1, Len(afterHost))
      repo == UpToSep(SubSeq(afterOwner, 2, Len(afterOwner)))
  IN IF at = 0 \/ owner = <<>> \/ afterOwner = <<>> \/ repo = <<>>
       THEN [err |-> Err("invalid GitHub URL format"), owner |-> <<>>, repo |-> <<>>]
       ELSE [err |-> Nil, owner |-> owner, repo |-> TrimSuffix(repo, <<".git">>)]

NoRelease == [TagName |-> <<>>, Assets |-> <<>>]

\* a resolution that sends the request without looking at the token
ReleaseWithoutToken(isPrivate, githubToken, r) ==
  IF r.relNet = "transport"
    THEN [err |-> Err("failed to get release info"), release |-> NoRelease, http |-> <<"release">>]
  ELSE IF r.relNet = "404"
    THEN [err |-> Err("repository not found or no access"), release |-> NoRelease, http |-> <<"release">>]
  ELSE IF r.relNet = "status"
    THEN [err |-> Err("GitHub API returned status"), release |-> NoRelease, http |-> <<"release">>]
  ELSE [err |-> Nil, release |-> r.release, http |-> <<"release">>]

\* lines 152-185
getLatestRelease(isPrivate, githubToken, r) ==
  IF isPrivate /\ githubToken = <<>>
    THEN [err |-> Err("private repository requires token"), release |-> NoRelease, http |-> <<>>]
  ELSE IF r.relNet = "transport"
    THEN [err |-> Err("failed to get release info"), release |-> NoRelease, http |-> <<"release">>]
  ELSE IF r.relNet = "404"
    THEN [err |-> Err("repository not found or no access"), release |-> NoRelease, http |-> <<"release">>]
  ELSE IF r.relNet = "status"
    THEN [err |-> Err("GitHub API returned status"), release |-> NoRelease, http |-> <<"release">>]
  ELSE [err |-> Nil, release |-> r.release, http |-> <<"release">>]

\* lines 213-229 and 267-283: create the file and copy the body
CreateBody(m, targetPath, body) ==
  IF ~m.ok THEN [err |-> Err("failed to create directory"), fs |-> m.fs, panic |-> FALSE]
  ELSE Checked(CreateFile(m.fs, targetPath, body), "failed to create file") @@ [panic |-> FALSE]

\* lines 208-229 and 262-283: create the parent directory, then the file
SaveBody(fs, targetPath, body) == CreateBody(MkdirAll(fs, Dir(targetPath)), targetPath, body)

downloadAssetViaAPI(fs, targetPath, r) ==
  IF r.dlNet = "transport"
    THEN [err |-> Err("failed to download file"), fs |-> fs, panic |-> FALSE, http |-> <<"download">>]
  ELSE IF r.dlNet = "status"
    THEN [err |-> Err("server returned status"), fs |-> fs, panic |-> FALSE, http |-> <<"download">>]
  ELSE SaveBody(fs, targetPath, r.body) @@ [http |-> <<"download">>]

\* the private branch of downloadBinary: the error of client.Do is dropped
\* (line 248), so a failed request leaves resp nil and err nil, and
\* resp.Body (line 256) dereferences nil
PrivateTransportFailure(fs) ==
  [err |-> Nil, fs |-> fs, panic |-> TRUE, http |-> <<"download">>]

downloadBinary(fs, targetPath, isPrivate, githubToken, r) ==
  IF isPrivate /\ githubToken = <<>>
    THEN [err |-> Err("private repository requires token"), fs |-> fs, panic |-> FALSE, http |-> <<>>]
  ELSE IF r.dlNet = "transport"
    THEN IF isPrivate THEN PrivateTransportFailure(fs)
         ELSE [err |-> Err("failed to download file"), fs |-> fs, panic |-> FALSE,
               http |-> <<"download">>]
  ELSE IF r.dlNet = "status"
    THEN [err |-> Err("server returned status"), fs |-> fs, panic |-> FALSE, http |-> <<"download">>]
  ELSE SaveBody(fs, targetPath, r.body) @@ [http |-> <<"download">>]

(***************************************************************************)
(* filepath.Walk visits a directory in lexical order of the names.         *)
(***************************************************************************)
TokOrder == <<"..", ".", "1", "2", "a", "b", "bin", "d", "e", "etc", "extract_", "lib", "p",
              "repo", "src", "tmp", "tool", "v1", "v2", "w", "x">>

TokRank(t) == IF \E i \in 1..Len(TokOrder) : TokOrder[i] = t
                THEN CHOOSE i \in 1..Len(TokOrder) : TokOrder[i] = t
                ELSE 0

RECURSIVE SegLess(_, _)
\* byte order of two path elements
SegLess(a, b) ==
  IF a = <<>> THEN b # <<>>
  ELSE IF b = <<>> THEN FALSE
  ELSE IF Head(a) = Head(b) THEN SegLess(Tail(a), Tail(b))
  ELSE TokRank(Head(a)) < TokRank(Head(b))

RECURSIVE SegsLess(_, _)
SegsLess(a, b) ==
  IF a = <<>> THEN b # <<>>
  ELSE IF b = <<>> THEN FALSE
  ELSE IF Head(a) = Head(b) THEN SegsLess(Tail(a), Tail(b))
  ELSE SegLess(Head(a), Head(b))

\* p is visited before q
WalkBefore(p, q) == SegsLess(SplitPath(p), SplitPath(q))

RECURSIVE SortPaths(_)
SortPaths(S) ==
  IF S = {} THEN <<>>
  ELSE LET first == CHOOSE p \in S : \A q \in S \ {p} : WalkBefore(p, q)
       IN <<first>> \o SortPaths(S \ {first})

\* the regular files the walk of lines 799-807 collects
WalkFiles(fs, root) ==
  SortPaths({p \in DOMAIN fs.files : Beneath(p, root)})

(***************************************************************************)
(* installDependency                                                       *)
(*                                                                         *)
(* The result carries what the function returns (err, lockDep), the file   *)
(* system it leaves, whether the process panicked, the HTTP requests it    *)
(* issued, and what the flow computed on the way: the asset chosen, the    *)
(* extraction directory, the paths the extraction changed and the number   *)
(* of files the walk counted (-1 when no walk happened).                   *)
(***************************************************************************)
Result(err, lockDep, fs, http) ==
  [err |-> err, lockDep |-> lockDep, fs |-> fs, panic |-> FALSE, http |-> http,
   asset |-> NoAsset, extractDir |-> <<>>, changed |-> {}, count |-> -1]

Failure(err, fs, http) == Result(err, NoLock, fs, http)

IsArchiveName(name) ==
  \/ HasSuffix(name, <<".", "tar", ".", "gz">>)
  \/ HasSuffix(name, <<".", "tar", ".", "xz">>)
  \/ HasSuffix(name, <<".", "zip">>)

ExtractDirOf(depName) == Join(<<WorkDir, <<"tmp">>, <<"extract_">> \o depName>>)

\* os.Rename of a file or of a directory with everything beneath it
Rename(fs, src, dst) ==
  IF IsFile(fs, src) THEN RenameFile(fs, src, dst)
  ELSE IF ~IsDir(fs, src) \/ IsFile(fs, dst) \/ ~IsDir(fs, Dir(dst))
            \/ (IsDir(fs, dst) /\ \E q \in (DOMAIN fs.files) \cup fs.dirs : Beneath(q, dst))
    THEN [ok |-> FALSE, fs |-> fs]
  ELSE LET moved(q) == dst \o SubSeq(q, Len(src) + 1, Len(q))
           under(q) == q = src \/ Beneath(q, src)
           oldFiles == {q \in DOMAIN fs.files : under(q)}
           kept == DropFiles(fs.files, oldFiles)
           newFiles == {moved(q) : q \in oldFiles}
       IN [ok |-> TRUE,
           fs |-> [files |-> [q \in (DOMAIN kept) \cup newFiles |->
                                IF q \in newFiles
                                  THEN fs.files[CHOOSE o \in oldFiles : moved(o) = q]
                                  ELSE kept[q]],
                   dirs |-> {q \in fs.dirs : ~under(q)} \cup {moved(q) : q \in {d \in fs.dirs : under(d)}}]]

\* os.ReadDir: the entries directly inside dir, sorted by name
ReadDir(fs, dir) ==
  SortPaths({p \in (DOMAIN fs.files) \cup fs.dirs :
               Beneath(p, dir) /\ ~Contains(Rel(dir, p), <<Sep>>)})

\* filepath.Walk: everything at or beneath root, a directory before its content
WalkAll(fs, root) ==
  SortPaths({p \in (DOMAIN fs.files) \cup fs.dirs : p = root \/ Beneath(p, root)})

\* lines 828-832, after the target directory was created
MoveSingleFile(m, file, finalPath) ==
  IF ~m.ok THEN Step(Err("failed to create target directory"), m.fs)
  ELSE Checked(RenameFile(m.fs, file, finalPath), "failed to move extracted file")

\* lines 814-833: a fixed filename, the archive must hold exactly one file
PlaceSingleFile(fs, extractedFiles, targetDir, filename) ==
  IF Len(extractedFiles) > 1
    THEN Step(ErrCount("filename specified but archive contains files", Len(extractedFiles)), fs)
  ELSE IF Len(extractedFiles) = 0 THEN Step(Err("no files found in archive"), fs)
  ELSE MoveSingleFile(MkdirAll(fs, targetDir), extractedFiles[1], Join(<<targetDir, filename>>))

RECURSIVE MoveFiles(_, _, _, _)
RECURSIVE MoveRest(_, _, _, _)
\* the loop of lines 841-859 goes on unless the move failed
MoveRest(mv, extractedFiles, tmpExtractDir, targetDir) ==
  IF mv.err # Nil THEN mv ELSE MoveFiles(mv.fs, extractedFiles, tmpExtractDir, targetDir)

\* lines 850-858, after the directory of the final path was created
MoveOneFile(m, file, finalPath) ==
  IF ~m.ok THEN Step(Err("failed to create directory"), m.fs)
  ELSE Checked(RenameFile(m.fs, file, finalPath), "failed to move extracted file")

\* lines 842-858 for the final path of the file
MoveFileTo(fs, file, finalPath) == MoveOneFile(MkdirAll(fs, Dir(finalPath)), file, finalPath)

MoveFiles(fs, extractedFiles, tmpExtractDir, targetDir) ==
  IF extractedFiles = <<>> THEN Step(Nil, fs)
  ELSE MoveRest(MoveFileTo(fs, Head(extractedFiles),
                           Join(<<targetDir, Rel(tmpExtractDir, Head(extractedFiles))>>)),
                Tail(extractedFiles), tmpExtractDir, targetDir)

\* lines 835-861, after the target directory was created
MoveAllFiles(m, extractedFiles, tmpExtractDir) ==
  IF ~m.ok THEN Step(Err("failed to create target directory"), m.fs)
  ELSE MoveFiles(m.fs, extractedFiles, tmpExtractDir, m.dir)

\* a placement that refuses an archive without files
PlaceSomeFiles(fs, extractedFiles, tmpExtractDir, targetDir) ==
  IF extractedFiles = <<>> THEN Step(Err("no files found in archive"), fs)
  ELSE MoveAllFiles(MkdirAll(fs, targetDir) @@ [dir |-> targetDir], extractedFiles, tmpExtractDir)

\* lines 835-861: no filename, every file goes to the target directory
PlaceAllFiles(fs, extractedFiles, tmpExtractDir, targetDir) ==
  MoveAllFiles(MkdirAll(fs, targetDir) @@ [dir |-> targetDir], extractedFiles, tmpExtractDir)

\* a cleanup that removes the whole scratch root
CleanScratchRoot(fs, tmpExtractDir, actualTargetPath) == RemoveAll(fs, TmpDir)

\* lines 863-867
CleanScratch(fs, tmpExtractDir, actualTargetPath) ==
  Remove(RemoveAll(fs, tmpExtractDir), actualTargetPath).fs

\* what the extraction stage reports
Extracted(err, fs, extractDir, changed, count) ==
  [err |-> err, fs |-> fs, extractDir |-> extractDir, changed |-> changed, count |-> count]

\* lines 862-867: the scratch area is removed once the files are placed
BinaryPlaced(pl, tmpExtractDir, actualTargetPath, changed, count) ==
  IF pl.err # Nil THEN Extracted(pl.err, pl.fs, tmpExtractDir, changed, count)
  ELSE Extracted(Nil, CleanScratch(pl.fs, tmpExtractDir, actualTargetPath), tmpExtractDir,
                 changed, count)

\* lines 812-861: the walk has collected the files
BinaryWalked(fs, dep, targetDir, tmpExtractDir, actualTargetPath, changed, extractedFiles) ==
  BinaryPlaced(IF dep.Filename # <<>>
                 THEN PlaceSingleFile(fs, extractedFiles, targetDir, dep.Filename)
                 ELSE PlaceAllFiles(fs, extractedFiles, tmpExtractDir, targetDir),
               tmpExtractDir, actualTargetPath, changed, Len(extractedFiles))

\* lines 794-810: the archive has been extracted, or has failed to
BinaryExtracted(before, x, dep, targetDir, tmpExtractDir, actualTargetPath) ==
  IF x.err # Nil THEN Extracted(x.err, x.fs, tmpExtractDir, Changed(before, x.fs), -1)
  ELSE BinaryWalked(x.fs, dep, targetDir, tmpExtractDir, actualTargetPath,
                    Changed(before, x.fs), WalkFiles(x.fs, tmpExtractDir))

\* lines 789-871: extraction and placement of the binary flow
ExtractBinary(fs, depName, dep, expandedPath, assetName, actualTargetPath) ==
  IF ~(dep.Extract /\ IsArchiveName(assetName)) THEN Extracted(Nil, fs, <<>>, {}, -1)
  ELSE BinaryExtracted(fs, extractArchive(fs, actualTargetPath, ExtractDirOf(depName)), dep,
                       Join(<<WorkDir, expandedPath>>), ExtractDirOf(depName), actualTargetPath)

\* lines 873-885
BinaryLock(x, depName, dep, expandedPath, tag, asset, http) ==
  [Result(x.err,
          IF x.err # Nil THEN NoLock
          ELSE [Name |-> depName, Path |-> expandedPath, Source |-> dep.Source,
                Version |-> tag, Hash |-> tag, Type |-> "binary",
                Private |-> dep.Private, Extract |-> dep.Extract],
          x.fs, http)
     EXCEPT !.asset = asset, !.extractDir = x.extractDir, !.changed = x.changed,
            !.count = x.count]

\* lines 786-885: the download has returned
BinaryDownloaded(dl, depName, dep, expandedPath, tag, asset, actualTargetPath, http) ==
  IF dl.panic THEN [Failure(Nil, dl.fs, http \o dl.http) EXCEPT !.panic = TRUE, !.asset = asset]
  ELSE IF dl.err # Nil THEN [Failure(dl.err, dl.fs, http \o dl.http) EXCEPT !.asset = asset]
  ELSE BinaryLock(ExtractBinary(dl.fs, depName, dep, expandedPath, asset.Name, actualTargetPath),
                  depName, dep, expandedPath, tag, asset, http \o dl.http)

\* lines 781-785
BinaryDownload(mk, depName, dep, githubToken, r, expandedPath, tag, asset, actualTargetPath, http) ==
  IF ~mk.ok THEN [Failure(Err("failed to create tmp directory"), mk.fs, http) EXCEPT !.asset = asset]
  ELSE BinaryDownloaded(IF dep.Private
                          THEN downloadAssetViaAPI(mk.fs, actualTargetPath, r)
                          ELSE downloadBinary(mk.fs, actualTargetPath, dep.Private, githubToken, r),
                        depName, dep, expandedPath, tag, asset, actualTargetPath, http)

\* lines 769-780: where the asset is downloaded to
BinarySelected(fs, sel, depName, dep, githubToken, r, expandedPath, tag, http) ==
  IF sel.err # Nil THEN Failure(sel.err, fs, http)
  ELSE IF dep.Extract /\ IsArchiveName(sel.asset.Name)
    THEN BinaryDownload(MkdirAll(fs, TmpDir), depName, dep, githubToken, r, expandedPath, tag,
                        sel.asset, Join(<<TmpDir, sel.asset.Name>>), http)
  ELSE BinaryDownload([ok |-> TRUE, fs |-> fs], depName, dep, githubToken, r, expandedPath, tag,
                      sel.asset, Join(<<WorkDir, expandedPath, sel.asset.Name>>), http)

\* lines 659-767: the release is known, the path is expanded, the asset is selected
BinaryReleased(fs, rel, depName, dep, githubToken, env, r) ==
  IF rel.err # Nil THEN Failure(rel.err, fs, rel.http)
  ELSE BinarySelected(fs, SelectAsset(dep, rel.release.Assets), depName, dep, githubToken, r,
                      expandPath(dep.Path, rel.release.TagName, r.now, env),
                      rel.release.TagName, rel.http)

\* lines 653-885
InstallBinary(fs, depName, dep, githubToken, env, r) ==
  IF extractRepoInfo(dep.Source).err # Nil
    THEN Failure(extractRepoInfo(dep.Source).err, fs, <<>>)
  ELSE BinaryReleased(fs, getLatestRelease(dep.Private, githubToken, r), depName, dep,
                      githubToken, env, r)

RECURSIVE RehomeWalk(_, _, _, _)
RECURSIVE RehomeRest(_, _, _, _)
RehomeRest(mv, paths, extractedDir, targetDir) ==
  IF mv.err # Nil THEN mv ELSE RehomeWalk(mv.fs, paths, extractedDir, targetDir)

\* lines 608-613, after the directory of the target path was created
RehomeFile(m, path, targetPath) ==
  IF ~m.ok THEN Step(Err("failed to move extracted files"), m.fs)
  ELSE Checked(RenameFile(m.fs, path, targetPath), "failed to move extracted files")

\* the walk function of lines 589-615 for one path and its target path
RehomeOne(fs, path, relPath, targetPath) ==
  IF relPath = <<".">> THEN Step(Nil, fs)
  ELSE IF IsDir(fs, path) THEN Checked(MkdirAll(fs, targetPath), "failed to move extracted files")
  ELSE RehomeFile(MkdirAll(fs, Dir(targetPath)), path, targetPath)

RehomeWalk(fs, paths, extractedDir, targetDir) ==
  IF paths = <<>> THEN Step(Nil, fs)
  ELSE RehomeRest(RehomeOne(fs, Head(paths), Rel(extractedDir, Head(paths)),
                            Join(<<targetDir, Rel(extractedDir, Head(paths))>>)),
                  Tail(paths), extractedDir, targetDir)

RECURSIVE MoveEntries(_, _, _)
RECURSIVE MoveEntriesRest(_, _, _)
MoveEntriesRest(mv, entries, targetDir) ==
  IF mv.err # Nil THEN mv ELSE MoveEntries(mv.fs, entries, targetDir)

\* the loop of lines 620-627
MoveEntries(fs, entries, targetDir) ==
  IF entries = <<>> THEN Step(Nil, fs)
  ELSE MoveEntriesRest(Checked(Rename(fs, Head(entries), Join(<<targetDir, Base(Head(entries))>>)),
                               "failed to move extracted file"),
                       Tail(entries), targetDir)

\* lines 630-636
SourcePlaced(pl, tmpExtractDir, actualTargetPath, changed) ==
  IF pl.err # Nil THEN Extracted(pl.err, pl.fs, tmpExtractDir, changed, -1)
  ELSE Extracted(Nil, CleanScratch(pl.fs, tmpExtractDir, actualTargetPath), tmpExtractDir,
                 changed, -1)

\* lines 587-628: a single top-level directory is unwrapped
SourceListed(fs, entries, targetDir, tmpExtractDir, actualTargetPath, changed) ==
  SourcePlaced(IF Len(entries) = 1 /\ IsDir(fs, entries[1])
                 THEN RehomeWalk(fs, WalkAll(fs, entries[1]), entries[1], targetDir)
                 ELSE MoveEntries(fs, entries, targetDir),
               tmpExtractDir, actualTargetPath, changed)

\* lines 576-585, after the target directory was created
SourceTargetMade(m, targetDir, tmpExtractDir, actualTargetPath, changed) ==
  IF ~m.ok THEN Extracted(Err("failed to create target directory"), m.fs, tmpExtractDir, changed, -1)
  ELSE SourceListed(m.fs, ReadDir(m.fs, tmpExtractDir), targetDir, tmpExtractDir,
                    actualTargetPath, changed)

\* lines 571-580: the archive has been extracted, or has failed to
SourceExtracted(before, x, targetDir, tmpExtractDir, actualTargetPath) ==
  IF x.err # Nil THEN Extracted(x.err, x.fs, tmpExtractDir, Changed(before, x.fs), -1)
  ELSE SourceTargetMade(MkdirAll(x.fs, targetDir), targetDir, tmpExtractDir, actualTargetPath,
                        Changed(before, x.fs))

\* lines 568-637: extraction and placement of the source flow
ExtractSource(fs, depName, expandedPath, actualTargetPath) ==
  SourceExtracted(fs, extractArchive(fs, actualTargetPath, ExtractDirOf(depName)),
                  Join(<<WorkDir, expandedPath>>), ExtractDirOf(depName), actualTargetPath)

\* a flow that accepts every source entry
NoValidation(dep) == Nil

\* lines 494-510
ValidateSource(dep) ==
  IF dep.AssetName # <<>> THEN Err("asset_name is not allowed for source")
  ELSE IF dep.AssetSuffix # <<>> THEN Err("asset_suffix is not allowed for source")
  ELSE IF dep.Extract /\ dep.Filename # <<>> THEN Err("filename cannot be used with extract")
  ELSE IF dep.AssetExtension # <<>> /\ dep.AssetExtension # <<"zip">>
            /\ dep.AssetExtension # <<"tar", ".", "gz">>
    THEN Err("asset_extension for source must be zip or tar.gz")
  ELSE IF dep.Extract /\ (Contains(dep.Path, AtAssetExtension)
                           \/ Contains(dep.Filename, AtAssetExtension))
    THEN Err("@ASSET_EXTENSION cannot be used with extract")
  ELSE Nil

\* lines 639-651
SourceLock(x, depName, dep, expandedPath, tag, http) ==
  [Result(x.err,
          IF x.err # Nil THEN NoLock
          ELSE [Name |-> depName, Path |-> expandedPath, Source |-> dep.Source,
                Version |-> tag, Hash |-> tag, Type |-> "source",
                Private |-> dep.Private, Extract |-> dep.Extract],
          x.fs, http)
     EXCEPT !.extractDir = x.extractDir, !.changed = x.changed]

\* lines 563-651: the download has returned
SourceDownloaded(dl, depName, dep, expandedPath, tag, actualTargetPath, http) ==
  IF dl.panic THEN [Failure(Nil, dl.fs, http \o dl.http) EXCEPT !.panic = TRUE]
  ELSE IF dl.err # Nil THEN Failure(dl.err, dl.fs, http \o dl.http)
  ELSE SourceLock(IF dep.Extract
                    THEN ExtractSource(dl.fs, depName, expandedPath, actualTargetPath)
                    ELSE Extracted(Nil, dl.fs, <<>>, {}, -1),
                  depName, dep, expandedPath, tag, http \o dl.http)

\* line 563
SourceDownload(mk, depName, dep, githubToken, r, expandedPath, tag, actualTargetPath, http) ==
  IF ~mk.ok THEN Failure(Err("failed to create tmp directory"), mk.fs, http)
  ELSE SourceDownloaded(downloadBinary(mk.fs, actualTargetPath, dep.Private, githubToken, r),
                        depName, dep, expandedPath, tag, actualTargetPath, http)

\* lines 552-561: where the archive is downloaded to
SourceNamed(fs, depName, dep, githubToken, r, expandedPath, tag, archiveName, http) ==
  IF dep.Extract
    THEN SourceDownload(MkdirAll(fs, TmpDir), depName, dep, githubToken, r, expandedPath, tag,
                        Join(<<TmpDir, archiveName>>), http)
    ELSE SourceDownload([ok |-> TRUE, fs |-> fs], depName, dep, githubToken, r, expandedPath, tag,
                        Join(<<WorkDir, expandedPath, archiveName>>), http)

\* lines 523-550: the format, the expanded path and the name of the archive
SourceFormatted(fs, repo, depName, dep, githubToken, env, r, tag, sourceFormat, http) ==
  SourceNamed(fs, depName, dep, githubToken, r,
              expandPathWithOptions(dep.Path, tag, sourceFormat, dep.Extract, r.now, env), tag,
              IF dep.Filename # <<>>
                THEN expandPathWithOptions(dep.Filename, tag, sourceFormat, dep.Extract, r.now, env)
                ELSE repo \o <<"-">> \o tag \o <<".">> \o sourceFormat,
              http)

\* lines 518-526
SourceReleased(fs, rel, repo, depName, dep, githubToken, env, r) ==
  IF rel.err # Nil THEN Failure(rel.err, fs, rel.http)
  ELSE SourceFormatted(fs, repo, depName, dep, githubToken, env, r, rel.release.TagName,
                       IF dep.AssetExtension # <<>> THEN dep.AssetExtension
                       ELSE <<"tar", ".", "gz">>,
                       rel.http)

\* lines 512-651
InstallSource(fs, depName, dep, githubToken, env, r) ==
  IF extractRepoInfo(dep.Source).err # Nil
    THEN Failure(extractRepoInfo(dep.Source).err, fs, <<>>)
  ELSE SourceReleased(fs, getLatestRelease(dep.Private, githubToken, r),
                      extractRepoInfo(dep.Source).repo, depName, dep, githubToken, env, r)

\* git ls-remote <url> HEAD, then parts[0][:8]
getLatestCommitHash(r) ==
  IF r.lsRemote # "ok" THEN [err |-> Err("failed to get latest commit"), hash |-> <<>>]
  ELSE [err |-> Nil, hash |-> SubSeq(r.commit, 1, 8)]

\* git clone when the target does not exist, else git pull (main, then master)
cloneOrUpdateRepo(fs, targetPath, r) ==
  IF r.git # "ok" THEN [ok |-> FALSE, fs |-> fs]
  ELSE IF Exists(fs, targetPath) THEN [ok |-> TRUE, fs |-> fs]
  ELSE [ok |-> TRUE, fs |-> [fs EXCEPT !.dirs = @ \cup SelfAndParents(targetPath)]]

\* lines 899-916
RepositoryCloned(c, depName, dep, expandedPath, hash) ==
  IF ~c.ok THEN Failure(Err("failed to install"), c.fs, <<>>)
  ELSE Result(Nil, [Name |-> depName, Path |-> expandedPath, Source |-> dep.Source,
                    Version |-> hash, Hash |-> hash, Type |-> "repository",
                    Private |-> dep.Private, Extract |-> dep.Extract], c.fs, <<>>)

\* lines 893-899
RepositoryExpanded(fs, depName, dep, r, expandedPath, hash) ==
  RepositoryCloned(cloneOrUpdateRepo(fs, Join(<<WorkDir, expandedPath>>), r), depName, dep,
                   expandedPath, hash)

\* lines 888-893
RepositoryHashed(fs, depName, dep, env, r, hash) ==
  RepositoryExpanded(fs, depName, dep, r,
                     expandPathWithOptions(dep.Path, hash, <<>>, dep.Extract, r.now, env), hash)

\* a repository flow that gives up when the commit hash cannot be resolved
InstallRepositoryStrict(fs, depName, dep, env, r) ==
  IF getLatestCommitHash(r).err # Nil THEN Failure(getLatestCommitHash(r).err, fs, <<>>)
  ELSE RepositoryHashed(fs, depName, dep, env, r, getLatestCommitHash(r).hash)

\* lines 887-917
InstallRepository(fs, depName, dep, env, r) ==
  RepositoryHashed(fs, depName, dep, env, r,
                   IF getLatestCommitHash(r).err # Nil THEN <<"unknown">>
                   ELSE getLatestCommitHash(r).hash)

\* strings.ToLower on the tokens names are made of
LowerTok(t) ==
  IF t = "Provider" THEN "provider"
  ELSE IF t = "Source" THEN "source"
  ELSE t

ToLower(s) == [i \in 1..Len(s) |-> LowerTok(s[i])]

\* an inference that looks for source before provider
DetermineSourceFirst(name) ==
  IF Contains(ToLower(name), <<"source">>) THEN "source"
  ELSE IF Contains(ToLower(name), <<"provider">>) THEN "binary"
  ELSE "repository"

\* lines 478-486
determineDependencyType(name) ==
  IF Contains(ToLower(name), <<"provider">>) THEN "binary"
  ELSE IF Contains(ToLower(name), <<"source">>) THEN "source"
  ELSE "repository"

\* lines 489-492
TypeOf(depName, dep) ==
  IF dep.Type = "" THEN determineDependencyType(depName) ELSE dep.Type

\* lines 487-918
installDependency(fs, depName, dep, githubToken, env, r) ==
  IF TypeOf(depName, dep) = "source"
    THEN IF ValidateSource(dep) # Nil THEN Failure(ValidateSource(dep), fs, <<>>)
         ELSE InstallSource(fs, depName, dep, githubToken, env, r)
  ELSE IF TypeOf(depName, dep) = "binary"
    THEN InstallBinary(fs, depName, dep, githubToken, env, r)
  ELSE InstallRepository(fs, depName, dep, env, r)

(***************************************************************************)
(* The lock file.  encoding/json writes private and extract only when they *)
(* are true (omitempty) and reads an absent field as the zero value.       *)
(***************************************************************************)
MarshalLockDependency(l) ==
  [k \in {"name", "path", "source", "version", "hash", "type"}
         \cup (IF l.Private THEN {"private"} ELSE {})
         \cup (IF l.Extract THEN {"extract"} ELSE {}) |->
     CASE k = "name" -> l.Name
       [] k = "path" -> l.Path
       [] k = "source" -> l.Source
       [] k = "version" -> l.Version
       [] k = "hash" -> l.Hash
       [] k = "type" -> <<l.Type>>
       [] OTHER -> <<"true">>]

UnmarshalLockDependency(j) ==
  [Name |-> j["name"], Path |-> j["path"], Source |-> j["source"],
   Version |-> j["version"], Hash |-> j["hash"], Type |-> j["type"][1],
   Private |-> "private" \in DOMAIN j, Extract |-> "extract" \in DOMAIN j]

\* json.MarshalIndent of a LockFile
MarshalLockFile(lock) == [n \in DOMAIN lock |-> MarshalLockDependency(lock[n])]

\* json.Unmarshal into a LockFile
UnmarshalLockFile(data) == [n \in DOMAIN data |-> UnmarshalLockDependency(data[n])]

EmptyLock == [n \in {} |-> NoLock]

(***************************************************************************)
(* The PackageManager: the path of the manifest and the path of its lock   *)
(* file.                                                                   *)
(***************************************************************************)
DepsFileName == <<"fracture", ".", "json">>

RECURSIVE ExtFrom(_, _)
\* filepath.Ext: the suffix that starts at the last dot of the last element
\* of the path, empty when that element has no dot
ExtFrom(path, i) ==
  IF i = 0 \/ path[i] = Sep THEN <<>>
  ELSE IF path[i] = "." THEN SubSeq(path, i, Len(path))
  ELSE ExtFrom(path, i - 1)

Ext(path) == ExtFrom(path, Len(path))

\* lines 92-96
generateLockFileName(configPath) ==
  TrimSuffix(configPath, Ext(configPath)) \o <<"-lock", ".", "json">>

\* lines 74-91: the fields derived from the -c argument
NewPackageManager(configPath) ==
  LET path == IF configPath = <<>> THEN DepsFileName ELSE configPath
  IN [configPath |-> path, lockPath |-> generateLockFileName(path)]

(***************************************************************************)
(* State                                                                   *)
(***************************************************************************)
VARIABLES
  deps,            \* the manifest (DepsFile)
  githubToken,     \* pm.githubToken
  env,             \* the process environment
  lockFile,        \* the lock file on disk, as JSON
  fs,              \* the file system under the working directory
  pc,              \* "idle", or the command that is running
  lock,            \* Install/Update: the lock file as loaded
  newLock,         \* Install: the lock file being built
  hasUpdates,      \* Install: the update hint is due
  todo,            \* the manifest entries the range loop has not visited yet
  dependencyName,  \* Update: the entry named on the command line
  version,         \* Update: the version named on the command line
  last,            \* the last call of installDependency: inputs and result
  result,          \* how the last command ended
  prevLockFile,    \* the lock file on disk when the command started
  attempts,        \* how often the command called installDependency per entry
  installed,       \* entries installDependency succeeded for in the command
  resolved,        \* the version the resolution produced for them
  runs,            \* commands started so far
  pm,              \* configPath and lockPath of the PackageManager
  managers,        \* every PackageManager constructed so far
  remote           \* what GitHub answers per entry, where a specification fixes it

vars == <<deps, githubToken, env, lockFile, fs, pc, lock, newLock, hasUpdates, todo,
          dependencyName, version, last, result, prevLockFile, attempts, installed,
          resolved, runs, pm, managers, remote>>

\* a loader that starts from an empty lock file
FreshLockFile == EmptyLock

\* lines 108-121
loadLockFile == UnmarshalLockFile(lockFile)

saveLockFile(l) == MarshalLockFile(l)

NoRemote ==
  [relNet |-> "ok", release |-> NoRelease, dlNet |-> "ok", body |-> RawBody(<<>>),
   lsRemote |-> "ok", commit |-> <<>>, git |-> "ok", now |-> 0]

NoCall ==
  [depName |-> <<>>, r |-> NoRemote, err |-> Nil, lockDep |-> NoLock, panic |-> FALSE,
   http |-> <<>>, asset |-> NoAsset, extractDir |-> <<>>, changed |-> {}, count |-> -1,
   touched |-> {}]

\* what the model remembers of a call
Call(depName, r, before, res) ==
  [depName |-> depName, r |-> r, err |-> res.err, lockDep |-> res.lockDep,
   panic |-> res.panic, http |-> res.http, asset |-> res.asset,
   extractDir |-> res.extractDir, changed |-> res.changed, count |-> res.count,
   touched |-> Changed(before, res.fs)]

NoResult == [cmd |-> "none", status |-> "none", hint |-> FALSE]

FlowOf(depName) ==
  IF TypeOf(depName, deps[depName]) \in {"source", "binary"}
    THEN TypeOf(depName, deps[depName])
    ELSE "repository"

\* the version string the release or commit resolution produced
Resolved(depName, r) ==
  IF FlowOf(depName) = "repository"
    THEN IF r.lsRemote = "ok" THEN SubSeq(r.commit, 1, 8) ELSE <<"unknown">>
    ELSE r.release.TagName

Put(f, k, v) == [x \in (DOMAIN f) \cup {k} |-> IF x = k THEN v ELSE f[x]]

NoVersions == [n \in {} |-> <<>>]

StartCommand(cmd, status) ==
  /\ pc = "idle"
  /\ runs < MaxRuns
  /\ runs' = runs + 1
  /\ prevLockFile' = lockFile
  /\ attempts' = [n \in DOMAIN deps |-> 0]
  /\ installed' = EmptyLock
  /\ resolved' = NoVersions
  /\ last' = NoCall
  /\ result' = [cmd |-> cmd, status |-> status, hint |-> FALSE]

\* Install, lines 920-931
InstallBegin ==
  /\ StartCommand("install", "running")
  /\ pc' = "install"
  /\ lock' = loadLockFile
  /\ newLock' = EmptyLock
  /\ hasUpdates' = FALSE
  /\ todo' = DOMAIN deps
  /\ UNCHANGED <<pm, managers, remote, deps, githubToken, env, lockFile, fs, dependencyName, version>>

\* the process dies of a runtime panic: nothing after the call runs
Panics(name, r, res) ==
  /\ pc' = "idle"
  /\ result' = [result EXCEPT !.status = "panic"]
  /\ fs' = res.fs
  /\ last' = Call(name, r, fs, res)
  /\ attempts' = [attempts EXCEPT ![name] = @ + 1]
  /\ UNCHANGED <<pm, managers, remote, deps, githubToken, env, lockFile, lock, newLock, hasUpdates, todo,
                 dependencyName, version, prevLockFile, installed, resolved, runs>>

\* a comparison for which a missing record is no update
HashChanged(oldLock, name, lockDep) ==
  name \in DOMAIN oldLock /\ oldLock[name].Hash # lockDep.Hash

\* a comparison for which every entry is news
AlwaysAvailable(oldLock, name, lockDep) == TRUE

\* lines 938-945: the hash differs from the record of the loaded lock file,
\* or the loaded lock file has no record of that name
UpdateAvailable(oldLock, name, lockDep) ==
  IF name \in DOMAIN oldLock THEN oldLock[name].Hash # lockDep.Hash ELSE TRUE

\* one iteration of the loop of Install, lines 932-948
InstallEntry(Remotes) ==
  /\ pc = "install"
  /\ \E name \in todo : \E r \in Remotes[name] :
       \E res \in {installDependency(fs, name, deps[name], githubToken, env, r)} :
          IF res.panic THEN Panics(name, r, res)
          ELSE /\ fs' = res.fs
               /\ last' = Call(name, r, fs, res)
               /\ attempts' = [attempts EXCEPT ![name] = @ + 1]
               /\ todo' = todo \ {name}
               /\ IF res.err # Nil
                    THEN UNCHANGED <<newLock, hasUpdates, installed, resolved>>
                    ELSE /\ hasUpdates' = (hasUpdates \/ UpdateAvailable(lock, name, res.lockDep))
                         /\ newLock' = Put(newLock, name, res.lockDep)
                         /\ installed' = Put(installed, name, res.lockDep)
                         /\ resolved' = Put(resolved, name, Resolved(name, r))
               /\ UNCHANGED <<pm, managers, remote, deps, githubToken, env, lockFile, pc, lock, dependencyName,
                              version, result, prevLockFile, runs>>

\* Install, lines 949-959
InstallFinish ==
  /\ pc = "install"
  /\ todo = {}
  /\ lockFile' = saveLockFile(newLock)
  /\ result' = [result EXCEPT !.status = "ok", !.hint = hasUpdates]
  /\ pc' = "idle"
  /\ UNCHANGED <<pm, managers, remote, deps, githubToken, env, fs, lock, newLock, hasUpdates, todo, dependencyName,
                 version, last, prevLockFile, attempts, installed, resolved, runs>>

\* Install, lines 949-952: the lock file cannot be written
InstallSaveFails ==
  /\ pc = "install"
  /\ todo = {}
  /\ result' = [result EXCEPT !.status = "error"]
  /\ pc' = "idle"
  /\ UNCHANGED <<pm, managers, remote, deps, githubToken, env, lockFile, fs, lock, newLock, hasUpdates, todo,
                 dependencyName, version, last, prevLockFile, attempts, installed, resolved,
                 runs>>

\* Update, lines 962-970, called by main with the arguments of the command line
UpdateBegin(Targets, Versions) ==
  /\ StartCommand("update", "running")
  /\ pc' = "update"
  /\ lock' = loadLockFile
  /\ \E dn \in Targets \cup {<<>>} :
       /\ dependencyName' = dn
       /\ \E v \in (IF dn = <<>> THEN {<<>>} ELSE Versions \cup {<<>>}) : version' = v
  /\ todo' = DOMAIN deps
  /\ UNCHANGED <<pm, managers, remote, deps, githubToken, env, lockFile, fs, newLock, hasUpdates>>

\* lines 982-985: an explicit version replaces the version and the hash
TargetedRecord(lockDep, versionArg) ==
  IF versionArg # <<>> THEN [lockDep EXCEPT !.Version = versionArg, !.Hash = versionArg]
  ELSE lockDep

\* lines 978-981 and 999-1002: Update returns before saveLockFile when the
\* entry failed, else the updated lock file is written
TargetedSave(err, onDisk, updated) ==
  IF err # Nil THEN onDisk ELSE saveLockFile(updated)

\* Update of one named entry, lines 971-987 and 999-1005
UpdateTargeted(Remotes) ==
  /\ pc = "update"
  /\ dependencyName # <<>>
  /\ IF dependencyName \notin DOMAIN deps
       THEN /\ result' = [result EXCEPT !.status = "error"]
            /\ pc' = "idle"
            /\ UNCHANGED <<pm, managers, remote, deps, githubToken, env, lockFile, fs, lock, newLock, hasUpdates,
                           todo, dependencyName, version, last, prevLockFile, attempts,
                           installed, resolved, runs>>
       ELSE \E r \in Remotes[dependencyName] :
            \E res \in {installDependency(fs, dependencyName, deps[dependencyName],
                                          githubToken, env, r)} :
              IF res.panic THEN Panics(dependencyName, r, res)
              ELSE /\ fs' = res.fs
                   /\ last' = Call(dependencyName, r, fs, res)
                   /\ attempts' = [attempts EXCEPT ![dependencyName] = @ + 1]
                   /\ pc' = "idle"
                   /\ lockFile' = TargetedSave(res.err, lockFile,
                                               Put(lock, dependencyName,
                                                   TargetedRecord(res.lockDep, version)))
                   /\ IF res.err # Nil
                        THEN /\ result' = [result EXCEPT !.status = "error"]
                             /\ UNCHANGED <<lock, installed, resolved>>
                        ELSE /\ lock' = Put(lock, dependencyName,
                                            TargetedRecord(res.lockDep, version))
                             /\ installed' = Put(installed, dependencyName, res.lockDep)
                             /\ resolved' = Put(resolved, dependencyName,
                                                Resolved(dependencyName, r))
                             /\ result' = [result EXCEPT !.status = "ok"]
                   /\ UNCHANGED <<pm, managers, remote, deps, githubToken, env, newLock, hasUpdates, todo,
                                  dependencyName, version, prevLockFile, runs>>

\* one iteration of the loop of Update, lines 989-997
UpdateEntry(Remotes) ==
  /\ pc = "update"
  /\ dependencyName = <<>>
  /\ \E name \in todo : \E r \in Remotes[name] :
       \E res \in {installDependency(fs, name, deps[name], githubToken, env, r)} :
          IF res.panic THEN Panics(name, r, res)
          ELSE /\ fs' = res.fs
               /\ last' = Call(name, r, fs, res)
               /\ attempts' = [attempts EXCEPT ![name] = @ + 1]
               /\ todo' = todo \ {name}
               /\ IF res.err # Nil
                    THEN UNCHANGED <<lock, installed, resolved>>
                    ELSE /\ lock' = Put(lock, name, res.lockDep)
                         /\ installed' = Put(installed, name, res.lockDep)
                         /\ resolved' = Put(resolved, name, Resolved(name, r))
               /\ UNCHANGED <<pm, managers, remote, deps, githubToken, env, lockFile, pc, newLock, hasUpdates,
                              dependencyName, version, result, prevLockFile, runs>>

\* Update, lines 999-1005, after the loop
UpdateFinish ==
  /\ pc = "update"
  /\ dependencyName = <<>>
  /\ todo = {}
  /\ lockFile' = saveLockFile(lock)
  /\ result' = [result EXCEPT !.status = "ok"]
  /\ pc' = "idle"
  /\ UNCHANGED <<pm, managers, remote, deps, githubToken, env, fs, lock, newLock, hasUpdates, todo, dependencyName,
                 version, last, prevLockFile, attempts, installed, resolved, runs>>

\* main, lines 1336-1389: the program is started with a -c argument and
\* constructs its PackageManager
StartProgram(ConfigPaths) ==
  /\ pc = "idle"
  /\ \E configPath \in ConfigPaths : pm' = NewPackageManager(configPath)
  /\ managers' = managers \cup {pm'}
  /\ UNCHANGED <<remote, deps, githubToken, env, lockFile, fs, pc, lock, newLock, hasUpdates,
                 todo, dependencyName, version, last, result, prevLockFile, attempts,
                 installed, resolved, runs>>

(***************************************************************************)
(* The values the model runs on                                            *)
(***************************************************************************)
GitSource == <<"https://", "github.com", Sep, "acme", Sep, "tool", ".git">>

V1 == <<"v1">>

V2 == <<"v2">>

Released(id, name) ==
  [ID |-> id, Name |-> name, BrowserDownloadURL |-> <<"https://", "dl", Sep>> \o name]

LinuxTarGz == Released(1, <<"tool", "_", "linux", "_", "amd64", ".", "tar", ".", "gz">>)

WindowsZip == Released(2, <<"tool", "_", "windows", "_", "amd64", ".", "zip">>)

LinuxZip == Released(3, <<"tool", "_", "linux", "_", "amd64", ".", "zip">>)

LibTarGz == Released(4, <<"lib", "_", "linux", "_", "amd64", ".", "tar", ".", "gz">>)

LinuxZipSig == Released(5, <<"tool", "_", "linux", "_", "amd64", ".", "zip", ".", "sig">>)

LinuxTarXz == Released(6, <<"tool", "_", "linux", "_", "amd64", ".", "tar", ".", "xz">>)

AssetCatalog == {LinuxTarGz, WindowsZip, LinuxZip, LibTarGz, LinuxZipSig}

RECURSIVE SeqsOf(_, _)
\* the sequences of at most n elements of S
SeqsOf(S, n) ==
  IF n = 0 THEN {<<>>}
  ELSE LET shorter == SeqsOf(S, n - 1)
       IN shorter \cup {Append(l, x) : l \in shorter, x \in S}

\* the sequences of at most n different elements of S
ListsOf(S, n) ==
  {l \in SeqsOf(S, n) : \A i, j \in 1..Len(l) : i # j => l[i] # l[j]}

Entry(name, typeflag, data) == [Name |-> name, Typeflag |-> typeflag, Data |-> data]

FileA == Entry(<<"a">>, "reg", <<1>>)

FileALong == Entry(<<"a">>, "reg", <<2, 2>>)

FileDB == Entry(<<"d", Sep, "b">>, "reg", <<2, 2>>)

DirD == Entry(<<"d", Sep>>, "dir", <<>>)

DirDot == Entry(<<".", Sep>>, "dir", <<>>)

FileUp == Entry(<<"..", Sep, "..", Sep, "etc", Sep, "p">>, "reg", <<1>>)

FileAbs == Entry(<<Sep, "etc", Sep, "p">>, "reg", <<1>>)

EntryCatalog == {FileA, FileALong, FileDB, DirD, DirDot, FileUp, FileAbs}

Dependency(path, type, suffix, private, extract, filename, assetName, assetExtension) ==
  [Path |-> path, Source |-> GitSource, Type |-> type, AssetSuffix |-> suffix,
   Private |-> private, Extract |-> extract, Filename |-> filename,
   AssetName |-> assetName, AssetExtension |-> assetExtension]

Tool == <<"tool">>

InitialFS == MkdirAll(EmptyFS, WorkDir).fs

Ghost == <<"ghost">>

Commit == <<"0", "1", "2", "3", "4", "5", "6", "7", "8", "9">>

Remote(relNet, tag, assets, dlNet, body) ==
  [relNet |-> relNet, release |-> [TagName |-> tag, Assets |-> assets], dlNet |-> dlNet,
   body |-> body, lsRemote |-> "ok", commit |-> <<>>, git |-> "ok", now |-> 1700000000]

GitRemote(lsRemote, git) ==
  [NoRemote EXCEPT !.lsRemote = lsRemote, !.commit = Commit, !.git = git, !.now = 1700000000]

FormatOf(name) ==
  IF HasSuffix(name, <<".", "tar", ".", "gz">>) THEN "tar.gz"
  ELSE IF HasSuffix(name, <<".", "tar", ".", "xz">>) THEN "tar.xz"
  ELSE IF HasSuffix(name, <<".", "zip">>) THEN "zip"
  ELSE "raw"

(***************************************************************************)
(* SpecSelect: one binary entry with every combination of the three        *)
(* filters, one command, against every release asset list.                 *)
(***************************************************************************)
NameChoices == {<<>>, <<"tool">>, <<"lib">>}

ExtensionChoices == {<<>>, <<"zip">>, <<".", "zip">>, <<"tar", ".", "gz">>}

SuffixChoices == {<<>>, <<"amd64">>, <<"linux", "_", "amd64">>, <<"windows">>}

\* what the network may answer, per entry name
SelectRemotes ==
  [name \in {Tool} |->
     {Remote("ok", V1, assets, "ok", RawBody(<<1>>)) :
        assets \in ListsOf(AssetCatalog, MaxAssets)}]

\* no command has run yet
InitCommand ==
  /\ pc = "idle"
  /\ lock = EmptyLock
  /\ newLock = EmptyLock
  /\ hasUpdates = FALSE
  /\ todo = {}
  /\ dependencyName = <<>>
  /\ version = <<>>
  /\ last = NoCall
  /\ result = NoResult
  /\ prevLockFile = MarshalLockFile(EmptyLock)
  /\ attempts = [n \in {} |-> 0]
  /\ installed = EmptyLock
  /\ resolved = NoVersions
  /\ pm = NewPackageManager(<<>>)
  /\ managers = {pm}

\* no specification of what GitHub answers
NoRemotes == [n \in {} |-> NoRemote]

InitCommon ==
  /\ env = [n \in {} |-> <<>>]
  /\ remote = NoRemotes
  /\ InitCommand

InitSelect ==
  /\ InitCommon
  /\ \E n \in NameChoices, e \in ExtensionChoices, x \in SuffixChoices :
       deps = [d \in {Tool} |-> Dependency(<<"bin">>, "binary", x, FALSE, FALSE, <<>>, n, e)]
  /\ githubToken = <<>>
  /\ lockFile = MarshalLockFile(EmptyLock)
  /\ fs = InitialFS
  /\ runs = MaxRuns - 1

NextSelect ==
  \/ InstallBegin
  \/ InstallEntry(SelectRemotes)
  \/ InstallFinish
  \/ UpdateBegin({Tool}, {})
  \/ UpdateTargeted(SelectRemotes)
  \/ UpdateEntry(SelectRemotes)
  \/ UpdateFinish

SpecSelect == InitSelect /\ [][NextSelect]_vars

(***************************************************************************)
(* SpecExtract: one binary entry that extracts its asset, with and without *)
(* a fixed filename, one command, against an archive of every supported    *)
(* format holding every sequence of entries of the catalog.                *)
(***************************************************************************)
ArchiveAssets == {LinuxTarGz, LinuxTarXz, LinuxZip}

ExtractRemotes ==
  [name \in {Tool} |->
     {Remote("ok", V1, <<a>>, "ok", ArchiveBody(FormatOf(a.Name), entries)) :
        a \in ArchiveAssets, entries \in SeqsOf(EntryCatalog, MaxEntries)}]

InitExtract ==
  /\ InitCommon
  /\ \E f \in {<<>>, <<"tool">>} :
       deps = [d \in {Tool} |->
                 Dependency(<<"bin">>, "binary", <<"amd64">>, FALSE, TRUE, f, <<>>, <<>>)]
  /\ githubToken = <<>>
  /\ lockFile = MarshalLockFile(EmptyLock)
  /\ fs = InitialFS
  /\ runs = MaxRuns - 1

NextExtract ==
  \/ InstallBegin
  \/ InstallEntry(ExtractRemotes)
  \/ InstallFinish
  \/ UpdateBegin({Tool}, {})
  \/ UpdateTargeted(ExtractRemotes)
  \/ UpdateEntry(ExtractRemotes)
  \/ UpdateFinish

SpecExtract == InitExtract /\ [][NextExtract]_vars

(***************************************************************************)
(* Spec: manifests of two entries (a public binary that extracts one file, *)
(* a private source archive, a repository), with and without a token, a    *)
(* lock file that is empty or holds an older record and a record of an     *)
(* entry no longer in the manifest, and MaxRuns commands in a row.         *)
(***************************************************************************)
Lib == <<"lib", "-", "source">>

Repo == <<"repo">>

V0 == <<"v0">>

ToolDep == Dependency(<<"bin">>, "binary", <<"linux">>, FALSE, TRUE, <<"tool">>, <<>>, <<>>)

LibDep == Dependency(<<"src">>, "", <<>>, TRUE, FALSE, <<>>, <<>>, <<>>)

RepoDep == Dependency(<<"repo">>, "repository", <<>>, FALSE, FALSE, <<>>, <<>>, <<>>)

Manifests ==
  {[d \in {Tool, Lib} |-> IF d = Tool THEN ToolDep ELSE LibDep],
   [d \in {Tool, Repo} |-> IF d = Tool THEN ToolDep ELSE RepoDep]}

OldRecord(name, type) ==
  [Name |-> name, Path |-> <<"old">>, Source |-> GitSource, Version |-> V0, Hash |-> V0,
   Type |-> type, Private |-> FALSE, Extract |-> FALSE]

OldLock ==
  [n \in {Ghost, Tool} |-> IF n = Ghost THEN OldRecord(Ghost, "repository")
                            ELSE OldRecord(Tool, "binary")]

\* archives of no, one and two regular files of different names
PlainArchives ==
  {ArchiveBody("tar.gz", l) : l \in {<<>>, <<FileA>>, <<FileA, FileDB>>}}

ToolRemotes ==
  {Remote("404", <<>>, <<>>, "ok", RawBody(<<>>)),
   Remote("ok", V1, <<LinuxTarGz, WindowsZip>>, "transport", RawBody(<<>>)),
   Remote("ok", V2, <<LinuxTarGz>>, "ok", ArchiveBody("tar.gz", <<FileA>>))}
  \cup {Remote("ok", V1, <<LinuxTarGz, WindowsZip>>, "ok", b) : b \in PlainArchives}

LibRemotes ==
  {Remote("transport", <<>>, <<>>, "ok", RawBody(<<>>)),
   Remote("ok", V1, <<>>, "transport", RawBody(<<>>)),
   Remote("ok", V1, <<>>, "status", RawBody(<<>>)),
   Remote("ok", V1, <<>>, "ok", RawBody(<<1>>))}

RepoRemotes == {GitRemote(l, g) : l \in {"ok", "failed"}, g \in {"ok", "failed"}}

CmdRemotes ==
  [name \in {Tool, Lib, Repo} |->
     IF name = Tool THEN ToolRemotes
     ELSE IF name = Lib THEN LibRemotes
     ELSE RepoRemotes]

Init ==
  /\ InitCommon
  /\ deps \in Manifests
  /\ githubToken \in {<<>>, <<"tok">>}
  /\ lockFile \in {MarshalLockFile(EmptyLock), MarshalLockFile(OldLock)}
  /\ fs = InitialFS
  /\ runs = 0

Next ==
  \/ InstallBegin
  \/ InstallEntry(CmdRemotes)
  \/ InstallFinish
  \/ UpdateBegin({Tool, Lib, Repo}, {V0})
  \/ UpdateTargeted(CmdRemotes)
  \/ UpdateEntry(CmdRemotes)
  \/ UpdateFinish

Spec == Init /\ [][Next]_vars

(***************************************************************************)
(* SpecPlace: one entry that extracts its archive (a binary with a fixed   *)
(* filename, a binary without one, a source archive that is public or      *)
(* private), a scratch root tmp/ that already holds files of the user, a   *)
(* destination that is free or is blocked by a regular file, and MaxRuns   *)
(* commands in a row, so that a run starts from what earlier runs left.    *)
(***************************************************************************)
WrapDir == Entry(<<"x", Sep>>, "dir", <<>>)

WrapA == Entry(<<"x", Sep, "a">>, "reg", <<1>>)

WrapDB == Entry(<<"x", Sep, "d", Sep, "b">>, "reg", <<2, 2>>)

ToolDirDep == Dependency(<<"bin">>, "binary", <<"linux">>, FALSE, TRUE, <<>>, <<>>, <<>>)

LibExtractDep(private) == Dependency(<<"bin">>, "", <<>>, private, TRUE, <<>>, <<>>, <<>>)

PlaceManifests ==
  {[d \in {Tool} |-> ToolDep], [d \in {Tool} |-> ToolDirDep]}
  \cup {[d \in {Lib} |-> LibExtractDep(private)] : private \in BOOLEAN}

\* the bodies a download may serve: archives of plain files, of a wrapper
\* directory, with an entry that climbs out after a harmless one, with an
\* absolute name, and a zip served under a tar.gz name
PlaceBodies ==
  {ArchiveBody("tar.gz", l) :
     l \in {<<>>, <<FileA>>, <<FileA, FileDB>>, <<DirD, FileDB>>, <<FileA, FileUp>>,
            <<FileAbs>>, <<WrapDir, WrapA, WrapDB>>, <<WrapA>>, <<FileA, WrapDir, WrapA>>}}
  \cup {ArchiveBody("zip", <<FileA>>)}

PlaceRemotes ==
  [name \in {Tool, Lib} |->
     {Remote("ok", V1, <<LinuxTarGz, WindowsZip>>, "ok", b) : b \in PlaceBodies}
     \cup {Remote("ok", V2, <<LinuxTarGz>>, dl, RawBody(<<>>)) : dl \in {"status", "transport"}}]

KeepFile == Join(<<TmpDir, <<"keep">>>>)

KeepDir == Join(<<TmpDir, <<"other">>>>)

KeepDirFile == Join(<<KeepDir, <<"x">>>>)

\* the working directory with files of the user in tmp/
ScratchFS ==
  [files |-> PutFile(PutFile(NoFiles, KeepFile, RawBody(<<7>>)), KeepDirFile, RawBody(<<8>>)),
   dirs |-> {<<Sep>>} \cup SelfAndParents(KeepDir)]

\* the same, with a regular file where the destination directory should be
BlockedFS ==
  [ScratchFS EXCEPT !.files = PutFile(@, Join(<<WorkDir, <<"bin">>>>), RawBody(<<9>>))]

InitPlace ==
  /\ InitCommon
  /\ deps \in PlaceManifests
  /\ githubToken = <<"tok">>
  /\ lockFile = MarshalLockFile(EmptyLock)
  /\ fs \in {ScratchFS, BlockedFS}
  /\ runs = 0

NextPlace ==
  \/ InstallBegin
  \/ InstallEntry(PlaceRemotes)
  \/ InstallFinish
  \/ UpdateBegin({Tool, Lib}, {})
  \/ UpdateTargeted(PlaceRemotes)
  \/ UpdateEntry(PlaceRemotes)
  \/ UpdateFinish

SpecPlace == InitPlace /\ [][NextPlace]_vars

(***************************************************************************)
(* SpecHint: MaxRuns install commands in a row on the manifests of Spec,   *)
(* starting with an empty or an older lock file; the write of the lock     *)
(* file may fail.                                                          *)
(***************************************************************************)
NextHint ==
  \/ InstallBegin
  \/ InstallEntry(CmdRemotes)
  \/ InstallFinish
  \/ InstallSaveFails

SpecHint == Init /\ [][NextHint]_vars

(***************************************************************************)
(* SpecConfig: one entry of every type (source inferred from the name,     *)
(* source declared, binary, repository) with every combination of          *)
(* asset_name, asset_suffix, asset_extension, filename, extract and a path *)
(* with or without @ASSET_EXTENSION, and one command.                      *)
(***************************************************************************)
ExtensionPath == <<"src", Sep, "@", "ASSET_EXTENSION">>

ExtensionFilename == <<"f", ".", "@", "ASSET_EXTENSION">>

\* the name and the declared type of the entry, per kind of entry
ConfigKinds ==
  {[name |-> Lib, type |-> ""], [name |-> Tool, type |-> "source"],
   [name |-> Tool, type |-> "binary"], [name |-> Repo, type |-> "repository"]}

ConfigManifests ==
  {[d \in {k.name} |-> Dependency(path, k.type, suffix, FALSE, extract, filename, assetName, ext)] :
     k \in ConfigKinds, path \in {<<"src">>, ExtensionPath}, suffix \in {<<>>, <<"linux">>},
     extract \in BOOLEAN, filename \in {<<>>, ExtensionFilename},
     assetName \in {<<>>, <<"tool">>}, ext \in {<<>>, <<"zip">>}}

ConfigRemotes ==
  [name \in {Tool, Lib, Repo} |->
     IF name = Repo THEN {GitRemote("ok", "ok"), GitRemote("failed", "ok")}
     ELSE {Remote("404", <<>>, <<>>, "ok", RawBody(<<>>)),
           Remote("ok", V1, <<LinuxTarGz>>, "ok", ArchiveBody("tar.gz", <<FileA>>)),
           Remote("ok", V1, <<LinuxZip, WindowsZip>>, "ok", ArchiveBody("zip", <<FileA>>))}]

InitConfig ==
  /\ InitCommon
  /\ deps \in ConfigManifests
  /\ githubToken = <<>>
  /\ lockFile = MarshalLockFile(EmptyLock)
  /\ fs = InitialFS
  /\ runs = MaxRuns - 1

NextConfig ==
  \/ InstallBegin
  \/ InstallEntry(ConfigRemotes)
  \/ InstallFinish
  \/ UpdateBegin({Tool, Lib, Repo}, {})
  \/ UpdateTargeted(ConfigRemotes)
  \/ UpdateEntry(ConfigRemotes)
  \/ UpdateFinish

SpecConfig == InitConfig /\ [][NextConfig]_vars

(***************************************************************************)
(* SpecExpand: one public source entry that is downloaded as it is, whose  *)
(* path is a template with placeholders, installed once under every        *)
(* environment that sets or leaves unset the variables the templates name. *)
(***************************************************************************)
App == <<"APP">>

AppEnv == <<"APP", "_", "ENV">>

Home == <<"HOME">>

EnvNames == {App, AppEnv, Home}

EnvValues == {<<"a">>, <<"b">>}

\* every environment: each name is unset or has one of the values
Environments ==
  UNION {[S -> EnvValues] : S \in SUBSET EnvNames}

Var(name) == <<"$">> \o name

Templates ==
  {<<"src", Sep>> \o AtVersion,
   <<"src", Sep>> \o AtVersion \o <<Sep>> \o AtTimestamp,
   <<"src", Sep>> \o Var(Home) \o <<Sep>> \o AtVersion,
   <<"src", Sep>> \o Var(App) \o <<"-">> \o AtVersion \o <<"-">> \o Var(Home),
   <<"src", Sep>> \o Var(App) \o <<Sep>> \o Var(App),
   <<"src", Sep>> \o Var(App) \o <<Sep>> \o Var(AppEnv),
   <<"src", Sep>> \o Var(AppEnv) \o <<Sep>> \o Var(App)}

ExpandRemotes ==
  [name \in {Lib} |-> {Remote("ok", tag, <<>>, "ok", RawBody(<<1>>)) : tag \in {V1, V2}}]

InitExpand ==
  /\ env \in Environments
  /\ \E t \in Templates :
       deps = [d \in {Lib} |-> Dependency(t, "", <<>>, FALSE, FALSE, <<>>, <<>>, <<>>)]
  /\ githubToken = <<>>
  /\ lockFile = MarshalLockFile(EmptyLock)
  /\ fs = InitialFS
  /\ runs = MaxRuns - 1
  /\ remote = NoRemotes
  /\ InitCommand

NextExpand ==
  \/ InstallBegin
  \/ InstallEntry(ExpandRemotes)
  \/ InstallFinish

SpecExpand == InitExpand /\ [][NextExpand]_vars

(***************************************************************************)
(* SpecPrivate: one binary or source entry that is private or public, one  *)
(* private source entry that is misconfigured, with and without a token,   *)
(* and MaxRuns commands in a row.                                          *)
(***************************************************************************)
ToolPrivateDep(private) ==
  Dependency(<<"bin">>, "binary", <<"linux">>, private, TRUE, <<"tool">>, <<>>, <<>>)

LibPrivateDep(private, suffix) ==
  Dependency(<<"src">>, "", suffix, private, FALSE, <<>>, <<>>, <<>>)

PrivateManifests ==
  {[d \in {Tool} |-> ToolPrivateDep(private)] : private \in BOOLEAN}
  \cup {[d \in {Lib} |-> LibPrivateDep(private, <<>>)] : private \in BOOLEAN}
  \cup {[d \in {Lib} |-> LibPrivateDep(TRUE, <<"linux">>)]}

InitPrivate ==
  /\ InitCommon
  /\ deps \in PrivateManifests
  /\ githubToken \in {<<>>, <<"tok">>}
  /\ lockFile = MarshalLockFile(EmptyLock)
  /\ fs = InitialFS
  /\ runs = 0

NextPrivate ==
  \/ InstallBegin
  \/ InstallEntry(CmdRemotes)
  \/ InstallFinish
  \/ UpdateBegin({Tool, Lib}, {})
  \/ UpdateTargeted(CmdRemotes)
  \/ UpdateEntry(CmdRemotes)
  \/ UpdateFinish

SpecPrivate == InitPrivate /\ [][NextPrivate]_vars

(***************************************************************************)
(* SpecRepository: one repository entry (declared, inferred from the name, *)
(* or declared with a type the tool does not know) whose path may hold     *)
(* @VERSION, against a remote whose ls-remote and whose clone or pull may  *)
(* fail, and MaxRuns commands in a row.                                    *)
(***************************************************************************)
VersionedPath == <<"repo", Sep>> \o AtVersion

RepositoryManifests ==
  {[d \in {Repo} |-> Dependency(path, type, <<>>, private, FALSE, <<>>, <<>>, <<>>)] :
     path \in {<<"repo">>, VersionedPath}, type \in {"repository", "", "git"},
     private \in BOOLEAN}

InitRepository ==
  /\ InitCommon
  /\ deps \in RepositoryManifests
  /\ githubToken \in {<<>>, <<"tok">>}
  /\ lockFile = MarshalLockFile(EmptyLock)
  /\ fs = InitialFS
  /\ runs = 0

NextRepository ==
  \/ InstallBegin
  \/ InstallEntry(CmdRemotes)
  \/ InstallFinish
  \/ UpdateBegin({Repo}, {})
  \/ UpdateTargeted(CmdRemotes)
  \/ UpdateEntry(CmdRemotes)
  \/ UpdateFinish

SpecRepository == InitRepository /\ [][NextRepository]_vars

(***************************************************************************)
(* SpecLockFile: the program is started again and again with manifest      *)
(* paths that differ in the extension, the directory and the name.         *)
(***************************************************************************)
ManifestPaths ==
  {<<>>,
   <<"deps", ".", "json">>,
   <<"deps", ".", "yaml">>,
   <<"deps">>,
   <<"prod", ".", "json">>,
   <<"deps", ".", "prod", ".", "json">>,
   <<"deps", "-lock", ".", "json">>,
   <<"conf", Sep, "deps", ".", "json">>,
   <<"conf", ".", "d", Sep, "deps">>}

InitLockFile ==
  /\ InitCommon
  /\ deps = [d \in {Repo} |-> RepoDep]
  /\ githubToken = <<>>
  /\ lockFile = MarshalLockFile(EmptyLock)
  /\ fs = InitialFS
  /\ runs = 0

NextLockFile == StartProgram(ManifestPaths)

SpecLockFile == InitLockFile /\ [][NextLockFile]_vars

(***************************************************************************)
(* SpecReinstall: MaxRuns install commands in a row while GitHub answers   *)
(* the same for each entry every time.  Manifests of two entries (binary   *)
(* with one file or a directory, source extracted or kept as archive,      *)
(* repository); source archives have the single top-level directory of the *)
(* archives GitHub serves under /archive/refs/tags/ (lines 535-539).       *)
(***************************************************************************)
ReinstallManifests ==
  {[d \in {Tool, Lib} |-> IF d = Tool THEN ToolDep ELSE LibExtractDep(FALSE)],
   [d \in {Tool, Lib} |-> IF d = Tool THEN ToolDirDep ELSE LibDep],
   [d \in {Tool, Repo} |-> IF d = Tool THEN ToolDep ELSE RepoDep]}

SourceRemotes ==
  {Remote("404", <<>>, <<>>, "ok", RawBody(<<>>)),
   Remote("ok", V1, <<>>, "ok", ArchiveBody("tar.gz", <<WrapDir, WrapA, WrapDB>>)),
   Remote("ok", V2, <<>>, "status", RawBody(<<>>))}

ReinstallRemotes ==
  [name \in {Tool, Lib, Repo} |->
     IF name = Tool THEN ToolRemotes
     ELSE IF name = Lib THEN SourceRemotes
     ELSE RepoRemotes]

\* GitHub answers what the state says it answers
Answers == [name \in DOMAIN remote |-> {remote[name]}]

InitReinstall ==
  /\ env = [n \in {} |-> <<>>]
  /\ InitCommand
  /\ deps \in ReinstallManifests
  /\ remote \in {f \in [DOMAIN deps -> ToolRemotes \cup SourceRemotes \cup RepoRemotes] :
                   \A n \in DOMAIN deps : f[n] \in ReinstallRemotes[n]}
  /\ githubToken = <<"tok">>
  /\ lockFile = MarshalLockFile(EmptyLock)
  /\ fs = InitialFS
  /\ runs = 0

NextReinstall ==
  \/ InstallBegin
  \/ InstallEntry(Answers)
  \/ InstallFinish

SpecReinstall == InitReinstall /\ [][NextReinstall]_vars

(***************************************************************************)
(* SpecType: one entry under every name (with provider, with source, with  *)
(* both, with neither, in upper case) and every declared type (none,       *)
(* source, binary, repository, a type the tool does not know), with and    *)
(* without asset_suffix, against a remote where every request succeeds.    *)
(***************************************************************************)
TypeNames ==
  {Tool, Lib, <<"aws", "-", "provider">>, <<"source", "-", "provider">>,
   <<"My", "Provider">>, <<"Source", "-", "x">>}

DeclaredTypes == {"", "source", "binary", "repository", "git"}

TypeManifests ==
  {[d \in {name} |-> Dependency(<<"dst">>, type, suffix, FALSE, FALSE, <<>>, <<>>, <<>>)] :
     name \in TypeNames, type \in DeclaredTypes, suffix \in {<<>>, <<"linux">>}}

TypeRemotes ==
  [name \in TypeNames |->
     {[Remote("ok", tag, <<LinuxTarGz>>, "ok", RawBody(<<1>>)) EXCEPT !.commit = Commit] :
        tag \in {V1, V2}}]

InitType ==
  /\ InitCommon
  /\ deps \in TypeManifests
  /\ githubToken = <<>>
  /\ lockFile = MarshalLockFile(EmptyLock)
  /\ fs = InitialFS
  /\ runs = MaxRuns - 1

NextType ==
  \/ InstallBegin
  \/ InstallEntry(TypeRemotes)
  \/ InstallFinish
  \/ UpdateBegin(TypeNames, {})
  \/ UpdateTargeted(TypeRemotes)
  \/ UpdateEntry(TypeRemotes)
  \/ UpdateFinish

SpecType == InitType /\ [][NextType]_vars

(***************************************************************************)
(* Properties of the asset selection, under SpecSelect                     *)
(***************************************************************************)
\* the call of installDependency the state remembers was for a binary entry
BinaryCall == last.depName \in DOMAIN deps /\ FlowOf(last.depName) = "binary"

\* the release assets the remembered call was answered with
LastAssets == last.r.release.Assets

\* asset a passes every filter the entry configures
Satisfies(dep, a) ==
  /\ dep.AssetName # <<>> => Contains(a.Name, dep.AssetName)
  /\ dep.AssetExtension # <<>> =>
       HasSuffix(a.Name, IF Head(dep.AssetExtension) = "." THEN dep.AssetExtension
                         ELSE <<".">> \o dep.AssetExtension)
  /\ dep.AssetSuffix # <<>> => Contains(a.Name, dep.AssetSuffix)

\* the positions of the assets that pass every configured filter
Satisfying(dep, assets) == {i \in 1..Len(assets) : Satisfies(dep, assets[i])}

SeqRange(s) == {s[i] : i \in 1..Len(s)}

\* every ordering of a list
Reorderings(s) == {[i \in 1..Len(s) |-> s[f[i]]] : f \in Permutations(1..Len(s))}

\* the call downloaded nothing and left the file system as it was
NothingFetched ==
  /\ \A i \in 1..Len(last.http) : last.http[i] # "download"
  /\ last.touched = {}

\* the call and the command produced no lock record for the entry
NoLockRecord ==
  /\ last.lockDep = NoLock
  /\ last.depName \notin DOMAIN installed
  /\ last.depName \notin DOMAIN newLock
  /\ last.depName \notin DOMAIN lock
  /\ last.depName \notin DOMAIN lockFile

\* C1: installing a binary entry whose asset_suffix is empty never succeeds,
\* whatever the release asset list (empty, one asset, many) and whatever
\* asset_name and asset_extension are: installDependency returns an error,
\* no asset is chosen or downloaded and no lock record is produced.
C1_EmptySuffixNeverInstalls ==
  \A n \in DOMAIN deps :
    (FlowOf(n) = "binary" /\ deps[n].AssetSuffix = <<>>) =>
      /\ n \notin DOMAIN installed
      /\ n \notin DOMAIN lockFile
      /\ last.depName = n =>
           /\ last.err # Nil
           /\ last.asset = NoAsset
           /\ NothingFetched
           /\ NoLockRecord

\* a release with exactly one asset, requested without asset_suffix, is refused
C1_Witness ==
  /\ BinaryCall
  /\ deps[last.depName].AssetSuffix = <<>>
  /\ deps[last.depName].AssetName = <<>>
  /\ deps[last.depName].AssetExtension = <<>>
  /\ Len(LastAssets) = 1
  /\ last.err.kind = "asset_suffix is required"
  /\ pc = "idle"

\* C2: when asset_suffix is set and more than one of the assets that pass
\* the name and extension filters contains it, the call fails with the
\* ambiguity error naming every matching asset and no other; no asset is
\* chosen or downloaded and no lock record is produced, in every order of
\* the asset list.
C2_AmbiguityIsRefused ==
  (/\ BinaryCall
   /\ deps[last.depName].AssetSuffix # <<>>
   /\ Cardinality(Satisfying(deps[last.depName], LastAssets)) > 1) =>
     /\ last.err.kind = "multiple assets found"
     /\ SeqRange(last.err.names) =
          {LastAssets[i].Name : i \in Satisfying(deps[last.depName], LastAssets)}
     /\ last.err.count = Cardinality(Satisfying(deps[last.depName], LastAssets))
     /\ last.asset = NoAsset
     /\ NothingFetched
     /\ NoLockRecord

\* three assets, the first two of which match the suffix
C2_Witness ==
  /\ BinaryCall
  /\ deps[last.depName].AssetSuffix = <<"amd64">>
  /\ Len(LastAssets) = 3
  /\ Satisfying(deps[last.depName], LastAssets) = {1, 2}
  /\ last.err.kind = "multiple assets found"
  /\ last.err.count = 2

\* C3: for a binary entry with a non-empty asset_suffix the selection
\* succeeds if and only if exactly one release asset passes all configured
\* filters together; it then returns that asset (id, name, URL); and the
\* asset chosen, or the kind of the failure, is the same for every
\* reordering of the asset list.
C3_ExactlyOneMatchSelects ==
  (BinaryCall /\ deps[last.depName].AssetSuffix # <<>>) =>
     /\ last.asset # NoAsset <=>
          Cardinality(Satisfying(deps[last.depName], LastAssets)) = 1
     /\ last.asset # NoAsset =>
          \E i \in Satisfying(deps[last.depName], LastAssets) : last.asset = LastAssets[i]
     /\ \A l \in Reorderings(LastAssets) :
          /\ SelectAsset(deps[last.depName], l).asset = last.asset
          /\ SelectAsset(deps[last.depName], l).err.kind =
               SelectAsset(deps[last.depName], LastAssets).err.kind

\* all three filters set, three assets, the one match is the last of the list
C3_Witness ==
  /\ BinaryCall
  /\ deps[last.depName].AssetName = <<"tool">>
  /\ deps[last.depName].AssetExtension = <<"tar", ".", "gz">>
  /\ deps[last.depName].AssetSuffix = <<"amd64">>
  /\ Len(LastAssets) = 3
  /\ LastAssets[3] = LinuxTarGz
  /\ last.asset = LinuxTarGz
  /\ last.err = Nil
  /\ last.depName \in DOMAIN installed

(***************************************************************************)
(* Properties of the archive extraction, under SpecExtract                 *)
(***************************************************************************)
\* the remembered call extracted an archive into last.extractDir
Extraction == BinaryCall /\ last.extractDir # <<>>

\* the entries of the archive the remembered call downloaded
LastEntries == last.r.body.entries

\* where the name of an entry points, seen from the extraction directory
Pointed(e) == Clean(last.extractDir \o <<Sep>> \o e.Name)

\* the entry points outside the extraction directory
Escapes(e) == Pointed(e) # last.extractDir /\ ~Beneath(Pointed(e), last.extractDir)

IsAbsolute(name) == name # <<>> /\ Head(name) = Sep

\* the position of the first entry that satisfies Bad, 0 if there is none
FirstWhere(Bad(_)) ==
  IF \E i \in 1..Len(LastEntries) : Bad(LastEntries[i])
    THEN CHOOSE i \in 1..Len(LastEntries) :
           Bad(LastEntries[i]) /\ \A j \in 1..(i - 1) : ~Bad(LastEntries[j])
    ELSE 0

\* the extraction changed nothing but the extraction directory and what the
\* entries before position k name
OnlyEntriesBefore(k) ==
  \A p \in last.changed :
    \/ p = last.extractDir
    \/ \E i \in 1..(k - 1) : p \in SelfAndParents(Pointed(LastEntries[i]))

\* the extraction was aborted at position k with the path-traversal error
AbortedAt(k) ==
  /\ last.err.kind = "invalid file path"
  /\ OnlyEntriesBefore(k)
  /\ last.lockDep = NoLock
  /\ last.depName \notin DOMAIN installed

\* C4: for every archive format (tar.gz, tar.xz, zip) and every sequence of
\* entry names, the extraction creates or writes no file or directory
\* outside the target directory it was asked to extract into.
C4_NothingOutsideTarget ==
  Extraction =>
    \A p \in last.changed : p = last.extractDir \/ Beneath(p, last.extractDir)

\* an absolute name and a name that climbs out, in one zip archive
C4_Witness ==
  /\ Extraction
  /\ last.r.body.format = "zip"
  /\ LastEntries = <<FileAbs, FileUp>>
  /\ Pointed(FileAbs) \in last.changed
  /\ last.err.kind = "invalid file path"

AbsoluteOrEscapes(e) == IsAbsolute(e.Name) \/ Escapes(e)

RegularEntries == {i \in 1..Len(LastEntries) : LastEntries[i].Typeflag = "reg"}

\* the destination directory of the entry of the remembered call
Destination == Join(<<WorkDir, deps[last.depName].Path>>)

\* the remembered call extracted an archive for an entry with a fixed filename
SingleFileMode ==
  /\ BinaryCall
  /\ deps[last.depName].Extract
  /\ deps[last.depName].Filename # <<>>
  /\ last.count >= 0

\* C6: in single-file mode an archive with exactly one regular file always
\* succeeds and the file ends up at <destination>/<filename>; one with no
\* regular file fails with the empty-archive error, one with n >= 2 regular
\* files fails with the file-count error stating n; and on failure nothing
\* is placed in the destination.
C6_SingleFileBijection ==
  SingleFileMode =>
    /\ Cardinality(RegularEntries) = 1 =>
         /\ last.err = Nil
         /\ IsFile(fs, Join(<<Destination, deps[last.depName].Filename>>))
    /\ Cardinality(RegularEntries) = 0 => last.err.kind = "no files found in archive"
    /\ Cardinality(RegularEntries) >= 2 =>
         /\ last.err.kind = "filename specified but archive contains files"
         /\ last.err.count = Cardinality(RegularEntries)
    /\ last.err # Nil =>
         \A p \in last.touched : p # Destination /\ ~Beneath(p, Destination)

\* a bulk command has ended
BulkEnded ==
  /\ pc = "idle"
  /\ \/ result.cmd = "install"
     \/ result.cmd = "update" /\ dependencyName = <<>>

\* C7: during bulk install and bulk update a failing entry never keeps the
\* others from being processed: every manifest entry is attempted exactly
\* once, every entry that succeeded has its lock record in the saved lock
\* file, and the command ends without a fatal error.
C7_BulkAttemptsEveryEntry ==
  /\ \A n \in DOMAIN attempts : attempts[n] <= 1
  /\ BulkEnded =>
       /\ result.status = "ok"
       /\ \A n \in DOMAIN deps : attempts[n] = 1
       /\ \A n \in DOMAIN installed :
            n \in DOMAIN lockFile /\ lockFile[n] = MarshalLockDependency(installed[n])

\* a targeted update has ended for an entry that is missing or did not install
TargetedFailed ==
  /\ pc = "idle"
  /\ result.cmd = "update"
  /\ dependencyName # <<>>
  /\ dependencyName \notin DOMAIN installed

\* C8: a targeted update whose entry is missing from the manifest or whose
\* installation fails returns a fatal error to the command, and the lock
\* file is not written: it holds what it held before.
C8_TargetedFailureIsFatal ==
  TargetedFailed => result.status = "error" /\ lockFile = prevLockFile

\* the names the lock file held before the command that are not in the manifest
Orphans == (DOMAIN prevLockFile) \ (DOMAIN deps)

OrphansKept == \A n \in Orphans : n \in DOMAIN lockFile /\ lockFile[n] = prevLockFile[n]

C10_LockHoldsResolvedVersion ==
  (pc = "idle" /\ result.status = "ok") =>
    \A n \in DOMAIN installed :
      /\ n \in DOMAIN UnmarshalLockFile(lockFile)
      /\ UnmarshalLockFile(lockFile)[n].Version = resolved[n]
      /\ UnmarshalLockFile(lockFile)[n].Hash = resolved[n]

(***************************************************************************)
(* Properties of extraction, placement and the scratch area, under         *)
(* SpecPlace                                                               *)
(***************************************************************************)
\* the remembered call issued the request that downloads the archive
DownloadIssued == \E i \in 1..Len(last.http) : last.http[i] = "download"

\* the download was attempted and did not deliver the archive
DownloadFailed == DownloadIssued /\ last.r.dlNet # "ok"

\* the container format the name of the downloaded archive announces
AnnouncedFormat ==
  IF BinaryCall THEN FormatOf(last.asset.Name)
  ELSE IF deps[last.depName].AssetExtension = <<"zip">> THEN "zip"
  ELSE "tar.gz"

\* the remembered call ran extractArchive
ExtractionRan == last.depName \in DOMAIN deps /\ last.extractDir # <<>>

\* the downloaded archive cannot be extracted completely: it is not of the
\* announced format, or one of its entries climbs out of the target
ExtractionFailed ==
  /\ ExtractionRan
  /\ \/ last.r.body.format # AnnouncedFormat
     \/ \E i \in 1..Len(LastEntries) : Escapes(LastEntries[i])

\* the archive was extracted and the destination directory cannot be made
PlacementFailed ==
  /\ ExtractionRan
  /\ ~ExtractionFailed
  /\ IsFile(fs, Destination)

\* the lock file on disk holds a record for n that the command created or changed
RecordWritten(n) ==
  /\ n \in DOMAIN lockFile
  /\ n \notin DOMAIN prevLockFile \/ lockFile[n] # prevLockFile[n]

\* C11: a lock record of an entry is created or overwritten in a run only
\* if installDependency returned success for the entry in that run; and
\* whenever the download, the extraction (a failure partway through the
\* archive included) or the placement fails, the call returns an error for
\* the entry and no lock record is written for it.
C11_RecordOnlyOnSuccess ==
  /\ \A n \in DOMAIN lockFile : RecordWritten(n) => n \in DOMAIN installed
  /\ (last.depName \in DOMAIN deps /\ (DownloadFailed \/ ExtractionFailed \/ PlacementFailed)) =>
       /\ last.err # Nil
       /\ last.lockDep = NoLock
       /\ last.depName \notin DOMAIN installed
       /\ ~RecordWritten(last.depName)

(***************************************************************************)
(* Properties of the update hint, under SpecHint                           *)
(***************************************************************************)
\* the lock file the command loaded
Previous == UnmarshalLockFile(prevLockFile)

\* an entry installed in this run has no record in the loaded lock file, or
\* one with another hash
Drifted(n) == n \notin DOMAIN Previous \/ Previous[n].Hash # installed[n].Hash

InstallDone == pc = "idle" /\ result.cmd = "install" /\ result.status = "ok"

\* C12: an install emits the update hint if and only if an entry it
\* installed has no record in the loaded lock file or a record with another
\* hash; the comparison is never an error (such an entry is saved like any
\* other), and the hint is emitted only once the new lock file is saved.
C12_HintIffDrift ==
  /\ result.hint => InstallDone /\ lockFile = saveLockFile(newLock)
  /\ InstallDone =>
       /\ result.hint <=> \E n \in DOMAIN installed : Drifted(n)
       /\ \A n \in DOMAIN installed :
            n \in DOMAIN lockFile /\ lockFile[n] = MarshalLockDependency(installed[n])

\* the hint is due to a changed hash alone: the only entry installed has an
\* older record
C12_Witness ==
  /\ InstallDone
  /\ result.hint
  /\ DOMAIN installed = {Tool}
  /\ Tool \in DOMAIN Previous
  /\ Previous[Tool].Hash # installed[Tool].Hash

(***************************************************************************)
(* Properties of the scratch area, under SpecPlace                         *)
(***************************************************************************)
\* where the remembered call downloaded the archive to (lines 552-558, 769-777)
ScratchArchive ==
  IF BinaryCall THEN Join(<<TmpDir, last.asset.Name>>)
  ELSE Join(<<TmpDir, extractRepoInfo(deps[last.depName].Source).repo \o <<"-">>
                       \o last.r.release.TagName \o <<".", "tar", ".", "gz">>>>)

\* installDependency has returned from a call that ran the extraction
ReturnedFromExtraction == ExtractionRan /\ ~last.panic

\* C13: for an entry installed with extraction, whenever installDependency
\* returns, with success or with any failure (extraction error, rejected
\* path, file-count mismatch, empty archive, failed move), the downloaded
\* archive under tmp/ and the directory tmp/extract_<name> are gone.
C13_ScratchRemovedOnReturn ==
  ReturnedFromExtraction =>
    /\ ~Exists(fs, ScratchArchive)
    /\ ~Exists(fs, last.extractDir)

\* what the user keeps in the scratch root: every file and directory that
\* was beneath tmp/ before the first command
UserScratch == {p \in (DOMAIN ScratchFS.files) \cup ScratchFS.dirs : Beneath(p, TmpDir)}

\* p is in the file system what it was before the first command
Untouched(p) ==
  /\ IsDir(fs, p) = IsDir(ScratchFS, p)
  /\ IsFile(fs, p) = IsFile(ScratchFS, p)
  /\ IsFile(fs, p) => fs.files[p] = ScratchFS.files[p]

\* C14: the files and directories of the scratch root tmp/ that the tool
\* did not create (every name but the downloaded archive of the current
\* entry and its extract_<name> directory) are never deleted, moved or
\* modified by any sequence of install and update commands.
C14_UserScratchUntouched == \A p \in UserScratch : Untouched(p)

\* the last of MaxRuns commands has extracted an archive, placed its files
\* and removed its scratch area, next to the files of the user
C14_Witness ==
  /\ runs = MaxRuns
  /\ ReturnedFromExtraction
  /\ last.err = Nil
  /\ ~Exists(fs, last.extractDir)
  /\ ~Exists(fs, ScratchArchive)
  /\ IsFile(fs, KeepFile)
  /\ IsFile(fs, KeepDirFile)

(***************************************************************************)
(* Properties of the manifest constraints, under SpecConfig                *)
(***************************************************************************)
\* the settings a source entry must not have
Misconfigured(dep) ==
  \/ dep.AssetName # <<>>
  \/ dep.AssetSuffix # <<>>
  \/ dep.Filename # <<>> /\ dep.Extract

ConfigurationErrors ==
  {"asset_name is not allowed for source", "asset_suffix is not allowed for source",
   "filename cannot be used with extract"}

\* C15: a source entry (type declared or inferred from the name) that sets
\* asset_name, sets asset_suffix, or combines a filename with extract=true
\* is rejected with a configuration error before any network request is
\* made and before anything is written to disk, and gets no lock record.
C15_SourceConstraintsFirst ==
  \A n \in DOMAIN deps :
    (FlowOf(n) = "source" /\ Misconfigured(deps[n])) =>
      /\ n \notin DOMAIN installed
      /\ n \notin DOMAIN lockFile
      /\ fs = InitialFS
      /\ last.depName = n =>
           /\ last.err.kind \in ConfigurationErrors
           /\ last.http = <<>>
           /\ last.touched = {}
           /\ last.lockDep = NoLock

\* an entry whose type is inferred from its name, with a filename and
\* extract=true and nothing else wrong, has been refused
C15_Witness ==
  /\ last.depName = Lib
  /\ deps[Lib].Type = ""
  /\ deps[Lib].AssetName = <<>>
  /\ deps[Lib].AssetSuffix = <<>>
  /\ deps[Lib].Filename # <<>>
  /\ deps[Lib].Extract
  /\ last.err.kind = "filename cannot be used with extract"
  /\ pc = "idle"

(***************************************************************************)
(* Properties of the placement, under SpecPlace                            *)
(***************************************************************************)
\* the remembered call extracted the archive of a binary entry without a
\* fixed filename and went on to place the files
DirectoryMode ==
  /\ BinaryCall
  /\ deps[last.depName].Extract
  /\ deps[last.depName].Filename = <<>>
  /\ last.count >= 0

\* the path of an entry relative to the directory it was extracted into
RelativePath(e) == Rel(last.extractDir, Pointed(e))

\* nothing is left beneath the extraction directory
ScratchEmptied == \A p \in DOMAIN fs.files : ~Beneath(p, last.extractDir)

SourceUnpacked ==
  /\ ExtractionRan
  /\ FlowOf(last.depName) = "source"
  /\ ~last.panic
  /\ ~ExtractionFailed
  /\ ~IsFile(fs, Destination)

\* the name of the top-level entry an archive entry lies in
TopLevel(e) == UpToSep(RelativePath(e))

TopLevels == {TopLevel(LastEntries[i]) : i \in 1..Len(LastEntries)}

\* the top-level entry t of the archive is a directory
TopIsDirectory(t) ==
  \E i \in 1..Len(LastEntries) :
    /\ TopLevel(LastEntries[i]) = t
    /\ LastEntries[i].Typeflag = "dir" \/ RelativePath(LastEntries[i]) # t

\* the archive has exactly one top-level entry, a directory
Wrapped == Cardinality(TopLevels) = 1 /\ \A t \in TopLevels : TopIsDirectory(t)

\* the path of an entry relative to its top-level entry
BelowTop(e) == SubSeq(RelativePath(e), Len(TopLevel(e)) + 2, Len(RelativePath(e)))

\* C17: for a source entry with extract=true, if the extracted archive has
\* exactly one top-level entry and it is a directory, every file at
\* <wrapper>/<p> ends up at <destination>/<p> and the wrapper directory does
\* not appear in the destination; otherwise every top-level entry is placed
\* in the destination under its own name, its relative structure preserved.
C17_WrapperStripped ==
  SourceUnpacked =>
    /\ last.err = Nil
    /\ Wrapped =>
         /\ \A i \in RegularEntries :
              IsFile(fs, Join(<<Destination, BelowTop(LastEntries[i])>>))
         /\ \A t \in TopLevels : ~Exists(fs, Join(<<Destination, t>>))
    /\ ~Wrapped =>
         \A i \in RegularEntries :
           IsFile(fs, Join(<<Destination, RelativePath(LastEntries[i])>>))

(***************************************************************************)
(* Properties of the path expansion, under SpecExpand                      *)
(***************************************************************************)
\* a character that is no placeholder and no part of one
Marker == "#"

\* the text with every marker replaced by w
Fill(text, w) == ReplaceAll(text, <<Marker>>, w)

RECURSIVE MarkVar(_, _)
\* the template with every occurrence of $x replaced by the marker, x being
\* the longest identifier after the $
MarkVar(t, x) ==
  IF t = <<>> THEN <<>>
  ELSE IF Head(t) = "$" /\ Len(t) >= 2 /\ t[2] \in IdStartTok
    THEN (IF IdentRun(Tail(t)) = x THEN <<Marker>> ELSE <<"$">> \o IdentRun(Tail(t)))
         \o MarkVar(SubSeq(t, Len(IdentRun(Tail(t))) + 2, Len(t)), x)
  ELSE <<Head(t)>> \o MarkVar(Tail(t), x)

RECURSIVE Substituted(_, _)
\* the template with every occurrence of $NAME replaced by the value of
\* NAME, or by nothing if it is unset
Substituted(t, e) ==
  IF t = <<>> THEN <<>>
  ELSE IF Head(t) = "$" /\ Len(t) >= 2 /\ t[2] \in IdStartTok
    THEN Getenv(e, IdentRun(Tail(t)))
         \o Substituted(SubSeq(t, Len(IdentRun(Tail(t))) + 2, Len(t)), e)
  ELSE <<Head(t)>> \o Substituted(Tail(t), e)

\* the variables a template names
VarsOf(t) == {x \in EnvNames : MarkVar(t, x) # t}

\* the template with every placeholder replaced by the marker
MarkAll(t) ==
  Substituted(ReplaceAll(ReplaceAll(t, AtVersion, <<Marker>>), AtTimestamp, <<Marker>>),
              [x \in EnvNames |-> <<Marker>>])

\* what the remembered call makes of a template in place of the path
ExpandedAs(t) ==
  expandPathWithOptions(t, last.r.release.TagName, <<"tar", ".", "gz">>, FALSE, last.r.now, env)

\* the remembered call installed its entry: the lock record holds the
\* expanded path
PathExpanded == last.depName \in DOMAIN installed

\* C18: placeholders are expanded independently and other text is left
\* alone: what stands for @VERSION is exactly the version string whatever
\* the environment is, what a variable is set to shows only where that
\* variable occurs in the template, and every character outside a
\* placeholder is in the result unchanged.
C18_PlaceholdersIndependent ==
  PathExpanded =>
    /\ installed[last.depName].Path =
         Fill(ExpandedAs(ReplaceAll(deps[last.depName].Path, AtVersion, <<Marker>>)),
              last.r.release.TagName)
    /\ \A x \in VarsOf(deps[last.depName].Path) :
         \E w \in EnvValues \cup {<<>>} :
           installed[last.depName].Path = Fill(ExpandedAs(MarkVar(deps[last.depName].Path, x)), w)
    /\ ExpandedAs(MarkAll(deps[last.depName].Path)) = MarkAll(deps[last.depName].Path)

\* the template with @VERSION and @TIMESTAMP replaced as in the remembered call
Versioned(t) ==
  ReplaceAll(ReplaceAll(t, AtVersion, last.r.release.TagName),
             AtTimestamp, <<ToString(last.r.now)>>)

\* C19: every $NAME of a template (NAME the longest identifier after the
\* $) is replaced by exactly the value of the environment variable NAME, or
\* by the empty string if it is unset, whatever the other variables of the
\* template are, names that are a prefix of another name included, in
\* either order.
C19_EachVariableItsValue ==
  PathExpanded =>
    installed[last.depName].Path = Substituted(Versioned(deps[last.depName].Path), env)

(***************************************************************************)
(* Properties of @ASSET_EXTENSION, under SpecConfig                        *)
(***************************************************************************)
\* the archive format a source entry asks for (lines 523-526)
SourceFormatOf(dep) ==
  IF dep.AssetExtension # <<>> THEN dep.AssetExtension ELSE <<"tar", ".", "gz">>

\* the extension of the name of a release asset
ExtensionOf(name) ==
  IF HasSuffix(name, <<".", "tar", ".", "gz">>) THEN <<"tar", ".", "gz">>
  ELSE IF HasSuffix(name, <<".", "zip">>) THEN <<"zip">>
  ELSE <<>>

\* text with @ASSET_EXTENSION replaced by ext
WithExtension(text, ext) == ReplaceAll(text, AtAssetExtension, ext)

\* the extension the entry of the remembered call resolved to: the archive
\* format of a source entry, the extension of the asset chosen for a binary
\* entry, none for a repository
ResolvedExtension ==
  IF FlowOf(last.depName) = "source" THEN SourceFormatOf(deps[last.depName])
  ELSE IF FlowOf(last.depName) = "binary" THEN ExtensionOf(last.asset.Name)
  ELSE <<>>

\* the extension only a source entry passes to the expansion
SourceExtension ==
  IF FlowOf(last.depName) = "source" THEN SourceFormatOf(deps[last.depName]) ELSE <<>>

\* the path of the lock record and the place of the downloaded source
\* archive are the templates with @ASSET_EXTENSION standing for ext
ExpandsTo(ext) ==
  /\ installed[last.depName].Path = WithExtension(deps[last.depName].Path, ext)
  /\ (FlowOf(last.depName) = "source" /\ deps[last.depName].Filename # <<>>) =>
       IsFile(fs, Join(<<WorkDir, installed[last.depName].Path,
                         WithExtension(deps[last.depName].Filename, ext)>>))

\* the remembered call installed an entry whose path or filename holds
\* @ASSET_EXTENSION
ExtensionExpanded ==
  /\ last.depName \in DOMAIN installed
  /\ \/ Contains(deps[last.depName].Path, AtAssetExtension)
     \/ Contains(deps[last.depName].Filename, AtAssetExtension)

PrivateWithoutToken ==
  /\ last.depName \in DOMAIN deps
  /\ deps[last.depName].Private
  /\ githubToken = <<>>
  /\ FlowOf(last.depName) \in {"binary", "source"}

\* the call reached the release resolution: a source entry passed the
\* checks of its configuration
ResolutionReached ==
  FlowOf(last.depName) = "source" => ValidateSource(deps[last.depName]) = Nil

\* C21: for a private binary or source entry with no token configured the
\* release resolution fails with the requires-token error before any HTTP
\* request is issued; nothing is downloaded, nothing is written to disk and
\* no lock record is produced.
C21_PrivateNeedsToken ==
  PrivateWithoutToken =>
    /\ ResolutionReached => last.err = Err("private repository requires token")
    /\ last.err # Nil
    /\ last.http = <<>>
    /\ last.touched = {}
    /\ fs = InitialFS
    /\ last.lockDep = NoLock
    /\ last.depName \notin DOMAIN installed
    /\ last.depName \notin DOMAIN UnmarshalLockFile(lockFile)

\* a private binary entry was refused for the missing token although the
\* release and its asset could have been fetched
C21_Witness ==
  /\ PrivateWithoutToken
  /\ FlowOf(last.depName) = "binary"
  /\ last.r.relNet = "ok"
  /\ last.r.dlNet = "ok"
  /\ last.err = Err("private repository requires token")
  /\ pc = "idle"
  /\ result.status = "ok"

(***************************************************************************)
(* Properties of the repository flow, under SpecRepository                 *)
(***************************************************************************)
\* the remembered call ran the repository flow
RepositoryCall ==
  last.depName \in DOMAIN deps /\ FlowOf(last.depName) = "repository"

\* the version the call had to use: the first 8 characters of the commit
\* ls-remote reported, or the word unknown when ls-remote failed
HashOrUnknown ==
  IF last.r.lsRemote = "ok" THEN SubSeq(last.r.commit, 1, 8) ELSE <<"unknown">>

\* the command ended and saved the record of the remembered call
RecordSaved ==
  /\ pc = "idle"
  /\ result.status = "ok"
  /\ last.depName \in DOMAIN installed

\* C22: for a repository entry a failure to resolve the latest commit hash
\* does not abort the installation: the path is expanded with the literal
\* unknown as the version, clone-or-pull still runs, and when it succeeds
\* the lock record has version and hash unknown; when the resolution
\* succeeds the recorded version and hash are the 8-character short hash.
C22_UnknownHashInstalls ==
  RepositoryCall =>
    /\ last.r.git # "ok" => last.err = Err("failed to install")
    /\ last.r.git = "ok" =>
         /\ last.err = Nil
         /\ last.lockDep.Version = HashOrUnknown
         /\ last.lockDep.Hash = HashOrUnknown
         /\ last.lockDep.Path = ReplaceAll(deps[last.depName].Path, AtVersion, HashOrUnknown)
         /\ IsDir(fs, Join(<<WorkDir, last.lockDep.Path>>))
         /\ last.r.lsRemote = "ok" => Len(last.lockDep.Version) = 8
    /\ RecordSaved =>
         /\ UnmarshalLockFile(lockFile)[last.depName].Version = HashOrUnknown
         /\ UnmarshalLockFile(lockFile)[last.depName].Hash = HashOrUnknown

\* ls-remote failed, the checkout went to repo/unknown and the record with
\* version unknown was saved
C22_Witness ==
  /\ RepositoryCall
  /\ last.r.lsRemote = "failed"
  /\ deps[last.depName].Path = VersionedPath
  /\ IsDir(fs, Join(<<WorkDir, <<"repo", Sep, "unknown">>>>))
  /\ RecordSaved
  /\ UnmarshalLockFile(lockFile)[last.depName].Version = <<"unknown">>

(***************************************************************************)
(* Properties of the lock file name, under SpecLockFile                    *)
(***************************************************************************)
\* ext is the final extension of path: empty when the last element of the
\* path has no dot, else the text from its last dot on
FinalExtension(path, ext) ==
  /\ HasSuffix(path, ext)
  /\ \A i \in 2..Len(ext) : ext[i] \notin {".", Sep}
  /\ IF ext = <<>>
       THEN \A i \in 1..Len(path) :
              path[i] = "." => \E j \in (i + 1)..Len(path) : path[j] = Sep
       ELSE ext[1] = "."

\* the lock path is the manifest path without its final extension, followed
\* by -lock.json
LockPathDerived(m) ==
  \E n \in 0..Len(m.configPath) :
    /\ FinalExtension(m.configPath, SubSeq(m.configPath, n + 1, Len(m.configPath)))
    /\ m.lockPath = SubSeq(m.configPath, 1, n) \o <<"-lock", ".", "json">>

\* C23: each manifest file gets its own lock file: the lock path is the
\* manifest path with its final extension removed and -lock.json appended,
\* and two different manifest paths never map to the same lock path.
C23_OwnLockFile ==
  /\ \A m \in managers : LockPathDerived(m)
  /\ \A a, b \in managers : a.configPath # b.configPath => a.lockPath # b.lockPath

(***************************************************************************)
(* Properties of the order of the filter stages, under SpecSelect          *)
(***************************************************************************)
\* the positions of the assets left after the asset_name stage
LeftByName ==
  {i \in 1..Len(LastAssets) :
     deps[last.depName].AssetName # <<>> =>
       Contains(LastAssets[i].Name, deps[last.depName].AssetName)}

\* the positions of the assets left after the asset_extension stage
LeftByExtension ==
  {i \in LeftByName :
     deps[last.depName].AssetExtension # <<>> =>
       HasSuffix(LastAssets[i].Name,
                 IF Head(deps[last.depName].AssetExtension) = "."
                   THEN deps[last.depName].AssetExtension
                   ELSE <<".">> \o deps[last.depName].AssetExtension)}

\* the positions of the assets left after the asset_suffix stage
LeftBySuffix ==
  {i \in LeftByExtension : Contains(LastAssets[i].Name, deps[last.depName].AssetSuffix)}

\* the error lists exactly the assets at the positions S
Lists(err, S) ==
  /\ Len(err.names) = Cardinality(S)
  /\ SeqRange(err.names) = {LastAssets[i].Name : i \in S}

\* C24: the asset selection reports the failure of the earliest stage that
\* empties the candidate set: the name-filter error if asset_name is set and
\* matches no asset; otherwise the extension-filter error if asset_extension
\* is set and matches none of the remaining assets; only otherwise the
\* missing-suffix error, listing the remaining candidates, for an empty
\* asset_suffix and the suffix error for one that matches nothing.
C24_EarliestStageReported ==
  (BinaryCall /\ last.r.relNet = "ok") =>
    IF deps[last.depName].AssetName # <<>> /\ LeftByName = {}
      THEN last.err = Err("no assets found containing asset_name")
    ELSE IF deps[last.depName].AssetExtension # <<>> /\ LeftByExtension = {}
      THEN last.err = Err("no assets found with asset_extension")
    ELSE IF deps[last.depName].AssetSuffix = <<>>
      THEN /\ last.err.kind = "asset_suffix is required"
           /\ Lists(last.err, LeftByExtension)
    ELSE IF LeftBySuffix = {}
      THEN last.err = Err("no assets found matching asset_suffix")
    ELSE last.err.kind \notin {"no assets found containing asset_name",
                               "no assets found with asset_extension",
                               "asset_suffix is required",
                               "no assets found matching asset_suffix"}

\* asset_name leaves an asset, asset_extension matches only an asset the
\* name stage removed, asset_suffix is empty: the extension error is the
\* one reported
C24_Witness ==
  /\ BinaryCall
  /\ deps[last.depName].AssetName # <<>>
  /\ LeftByName # {}
  /\ deps[last.depName].AssetExtension # <<>>
  /\ LeftByExtension = {}
  /\ \E i \in 1..Len(LastAssets) :
       HasSuffix(LastAssets[i].Name, <<".">> \o deps[last.depName].AssetExtension)
  /\ deps[last.depName].AssetSuffix = <<>>
  /\ last.err = Err("no assets found with asset_extension")

(***************************************************************************)
(* Properties of the saved lock file after failures, under Spec            *)
(***************************************************************************)
\* a bulk install or a bulk update has ended and saved the lock file
BulkSaved ==
  /\ pc = "idle"
  /\ result.status = "ok"
  /\ result.cmd = "install" \/ (result.cmd = "update" /\ dependencyName = <<>>)

\* the entry is in the manifest and its installation failed in the command
FailedInRun(n) ==
  /\ n \in DOMAIN deps
  /\ attempts[n] > 0
  /\ n \notin DOMAIN installed

\* the lock file on disk holds for n what it held when the command started
RecordKept(n) ==
  /\ n \in DOMAIN lockFile <=> n \in DOMAIN prevLockFile
  /\ n \in DOMAIN lockFile => lockFile[n] = prevLockFile[n]

\* C25: after any bulk install or bulk update, an entry that is in the
\* manifest but whose installation failed in that run still has, in the
\* saved lock file, exactly the lock record it had before the run.
C25_FailedEntryKeepsRecord ==
  BulkSaved => \A n \in DOMAIN deps : FailedInRun(n) => RecordKept(n)

(***************************************************************************)
(* Properties of a run after earlier runs, under SpecPlace                 *)
(***************************************************************************)
\* the files of a file system beneath the directory dest, with their bodies
PlacedIn(disk, dest) ==
  [q \in {f \in DOMAIN disk.files : Beneath(f, dest)} |-> disk.files[q]]

\* the outcome of a call: success or the kind of the
\* failure, the number of files counted, and the files in the destination
Outcome(err, panic, count, disk, dest) ==
  [kind |-> err.kind, panic |-> panic, count |-> count, placed |-> PlacedIn(disk, dest)]

OutcomeOf(res, dest) == Outcome(res.err, res.panic, res.count, res.fs, dest)

\* the outcome installDependency has for the same entry and the same answers
\* of the network on a disk that differs only in that tmp/extract_<name>
\* does not exist
OnCleanScratch(disk, name, r, dest) ==
  OutcomeOf(installDependency(RemoveAll(disk, ExtractDirOf(name)), name, deps[name],
                              githubToken, env, r), dest)

\* a step that called installDependency for an entry that extracts
ExtractingCall ==
  /\ attempts' # attempts
  /\ last'.depName \in DOMAIN deps
  /\ deps[last'.depName].Extract

\* C26: the outcome of installing an entry with extraction (success or the
\* kind of failure, the counted number of files, the set of files placed in
\* the destination) depends only on the manifest entry and the downloaded
\* archive, not on earlier runs: a later install behaves exactly as it
\* would on a clean scratch directory.
C26_IndependentOfEarlierRuns ==
  [][ExtractingCall =>
       Outcome(last'.err, last'.panic, last'.count, fs',
               Join(<<WorkDir, deps[last'.depName].Path>>))
         = OnCleanScratch(fs, last'.depName, last'.r,
                          Join(<<WorkDir, deps[last'.depName].Path>>))]_vars

(***************************************************************************)
(* Properties of the entries the extraction accepts, under SpecExtract     *)
(***************************************************************************)
\* the extraction was aborted with the path-traversal error
PathRejected == last.err.kind = "invalid file path"

\* the normalized path of the entry is the target directory itself
PointsAtTarget(e) == Pointed(e) = last.extractDir

\* C27: the extraction rejects an entry only when it would escape the
\* target: every directory or regular-file entry whose normalized path is
\* the target directory itself (an entry named ./) or lies beneath it is
\* accepted and does not abort the extraction.
C27_OnlyEscapingRejected ==
  (Extraction /\ PathRejected) => \E i \in 1..Len(LastEntries) : Escapes(LastEntries[i])

(***************************************************************************)
(* Properties of a repeated install, under SpecReinstall                   *)
(***************************************************************************)
\* the install that has ended followed an install in which every entry of
\* the manifest succeeded: the lock file it loaded was written by that
\* install and has a record of every entry
SecondInstall ==
  /\ InstallDone
  /\ runs >= 2
  /\ DOMAIN Previous = DOMAIN deps

\* the saved lock file has for n the version and the hash the loaded one had
SameVersion(n) ==
  /\ n \in DOMAIN lockFile
  /\ UnmarshalLockFile(lockFile)[n].Version = Previous[n].Version
  /\ UnmarshalLockFile(lockFile)[n].Hash = Previous[n].Hash

TransportFailed ==
  /\ last.depName \in DOMAIN deps
  /\ DownloadIssued
  /\ last.r.dlNet = "transport"

\* C29: a transport-level failure of a download (the HTTP request itself
\* fails, with no response) is always returned as an error value by the
\* download step, for private as well as public entries, so that
\* installDependency returns an error for that entry and the process does
\* not crash.
C29_TransportFailureIsAnError ==
  /\ result.status # "panic"
  /\ TransportFailed => ~last.panic /\ last.err = Err("failed to download file")

(***************************************************************************)
(* Properties of the choice of the flow, under SpecType                    *)
(***************************************************************************)
\* the name holds the word, in lower case or capitalized
Mentions(name, lower, capitalized) ==
  \E i \in 1..Len(name) : name[i] \in {lower, capitalized}

\* the flow the entry of the remembered call is to be processed by
ExpectedFlow ==
  IF deps[last.depName].Type \in {"source", "binary"} THEN deps[last.depName].Type
  ELSE IF deps[last.depName].Type # "" THEN "repository"
  ELSE IF Mentions(last.depName, "provider", "Provider") THEN "binary"
  ELSE IF Mentions(last.depName, "source", "Source") THEN "source"
  ELSE "repository"

\* the flows that show in what the remembered call did: the type of the
\* record it returned, the error only one flow reports, requests to the
\* release API (binary and source) or none (repository), an asset chosen
\* (binary)
FlowsSeen ==
  {f \in {"binary", "source", "repository"} :
     \/ last.err = Nil /\ last.lockDep.Type = f
     \/ f = "source" /\ last.err.kind = "asset_suffix is not allowed for source"
     \/ f = "binary" /\ last.err.kind = "asset_suffix is required"
     \/ f = "binary" /\ last.asset # NoAsset
     \/ f = "repository" /\ last.http = <<>> /\ last.err = Nil}

\* C30: each entry is processed by exactly one of the three flows and its
\* lock record's type names the flow that ran, so every lock record's type
\* is one of binary, source or repository: a declared type of source or
\* binary selects that flow, an absent type is inferred from the entry name
\* (provider gives binary, else source gives source, else repository), and
\* any other declared type is not rejected but processed as a repository
\* checkout.
C30_OneFlowPerEntry ==
  /\ last.depName \in DOMAIN deps => FlowsSeen = {ExpectedFlow}
  /\ \A n \in DOMAIN installed : installed[n].Type = ExpectedFlow
  /\ \A n \in DOMAIN lockFile :
       UnmarshalLockFile(lockFile)[n].Type \in {"binary", "source", "repository"}

\* an entry of the unknown type git whose name holds both words was checked
\* out as a repository and saved with that type
C30_Witness ==
  /\ last.depName = <<"source", "-", "provider">>
  /\ deps[last.depName].Type = "git"
  /\ last.err = Nil
  /\ last.http = <<>>
  /\ last.depName \in DOMAIN lockFile
  /\ UnmarshalLockFile(lockFile)[last.depName].Type = "repository"

====
